---- MODULE Spec2Model ----
(***************************************************************************)
(* Model of the VH/VL packing-angle feature pipeline (vboron/VH_VL_Pack):  *)
(* the residue encoders, the batch feature-table builder and label joiner  *)
(* (encode_4d.py, process_encode_VHVL_resseq.py), the single-entity        *)
(* builders (abYpack_singfile.py, runGBRegmodel.py) and the position       *)
(* extractor (find_VHVLres.py).                                            *)
(*                                                                         *)
(* Numbers: every encoded feature is kept in thousandths (fixed point), so *)
(* 10.375 is 10375, -0.69 is -690 and +0.5 is 500.                         *)
(* Errors: a Python function that may raise returns a record               *)
(* [exc, value]; exc = "" is a normal return.                              *)
(***************************************************************************)
EXTENDS Integers, Sequences, FiniteSets, TLC

VARIABLES
    \* --- residue encoders applied to one symbol
    enc_in,        \* the symbol handed to the encoders
    enc_out,       \* file -> the four features' results, once called
    \* --- batch builder / joiner (encode_4d.py, process_encode_VHVL_resseq.py)
    script,        \* which of the two scripts runs
    res_df,        \* residue table read from --residue_csv
    angle_file,    \* angle table read from --angle_csv
    seq_df,        \* make_res_seq's result
    parameters,    \* encode's result
    encoded_df,    \* combine_by_pdb_code's table before the merge
    training_df,   \* combine_by_pdb_code's result
    pc,            \* position of the main program
    \* --- single-entity builders (abYpack_singfile.py, runGBRegmodel.py)
    s_script,      \* which of the two scripts runs
    seq_file,      \* the lines of the sequence file, each split into tokens
    pivot_drops,   \* whether the installed pandas drops an all-NaN pivot group
    data,          \* abYpack_singfile: seq2df's result
    loopdf,        \* abYpack_singfile: loop_df's result
    encdf,         \* abYpack_singfile: encode_df's result
    fulldf,        \* abYpack_singfile: the concatenation of encdf and loopdf
    line_no,       \* runGBRegmodel.seq2df: lines processed so far
    dRes,          \* runGBRegmodel.seq2df: dict, as (key, value) in insertion order
    l1_res,        \* runGBRegmodel.seq2df: positions seen in loop L1
    h2_res,        \* runGBRegmodel.seq2df: positions seen in loop H2
    h3_res,        \* runGBRegmodel.seq2df: positions seen in loop H3
    rg_df,         \* runGBRegmodel.seq2df: the returned one-row table (df)
    s_pc,          \* position of the single-entity script
    \* --- position extractor (find_VHVLres.py)
    pdb_lines,     \* read_pdbfiles_as_lines' result: code -> ATOM lines (tokens)
    init_table,    \* prep_table's result
    VHVLtable,     \* vh_vl_relevant_residues' result
    x_pc,          \* position of the extractor's main program
    \* --- the two extractors on ATOM lines kept as character strings
    f_script,      \* find_VHVLres or findVHVLResidues
    f_lines,       \* code -> ATOM lines, each a sequence of characters
    f_table,       \* prep_table's result
    f_out,         \* vh_vl_relevant_residues' result
    f_pc,          \* position: start, table, done or the exception raised
    \* --- training program (gbr_angle_prediction.py)
    trainset,      \* the entities of the --trainset directory, in input order
    testset,       \* the entities of the --testset directory, in input order
    df_train,      \* preprocessing's table for the training set
    df_test,       \* preprocessing's table for the test set
    g_model,       \* runGBReg: whether the model is built, and the rows it was fitted on
    result_df,     \* runGBReg: whether the results table exists, and its codes
    g_pc,          \* position of the training program
    \* --- prediction with a stored model (abYpack_singfile.py, runGBRegmodel.py, temp.py)
    m_function,    \* predict_angle, run_models or generate_GBReg_model_everything
    m_columns,     \* the columns of the table handed to the function
    X_test,        \* the predictor columns handed to predict
    predict_called,\* whether predict of the loaded model has been called
    m_pc,          \* position: start, loaded, done or the exception raised
    \* --- a second run of encode_4d.py on the same inputs
    run_no,        \* 1 in the first run, 2 in the second
    first_run,     \* what the first run ended with
    \* --- directory scans (find_VHVLres.py, findVHVLResidues.py, compile_angles.py)
    d_script,      \* which of the three scripts runs
    d_listing,     \* os.listdir(directory): the files, in listing order
    d_i,           \* number of structure files dealt with so far
    d_open,        \* the files (by index in the list) with an open handle
    pdb_dict,      \* read_pdbfiles_as_lines: (key, ATOM lines) in insertion order
    file_data,     \* buid_table_of_angles: the rows [code, angle] so far
    df_ang,        \* buid_table_of_angles: the returned table
    d_pc           \* position of the scan

Return(v) == [exc |-> "", value |-> v]
Raise(e)  == [exc |-> e, value |-> 0]

(***************************************************************************)
(* The 20-letter alphabet, the fallback symbol and symbols outside both.   *)
(***************************************************************************)
AminoAcids == {"A", "R", "N", "D", "C", "Q", "E", "G", "H", "I", "L", "K", "M", "F",
               "P", "S", "T", "W", "Y", "V"}
OtherSymbols == {"B", "Z", "J", "O", "U", "x", "q", "-", "nan"}
Symbols == AminoAcids \cup {"X"} \cup OtherSymbols

(***************************************************************************)
(* Residue encoder of encode_4d.py                                        *)
(***************************************************************************)
e4_nr_side_chain_atoms_dic ==
    [A |-> 1000, R |-> 7000, N |-> 4000, D |-> 4000, C |-> 2000, Q |-> 5000, E |-> 5000, G |-> 0,
     H |-> 6000, I |-> 4000, L |-> 4000, K |-> 15000, M |-> 4000, F |-> 7000, P |-> 4000,
     S |-> 2000, T |-> 3000, W |-> 10000, Y |-> 8000, V |-> 3000, X |-> 10375]
e4_nr_side_chain_atoms(resi) ==
    IF resi \in DOMAIN e4_nr_side_chain_atoms_dic
    THEN Return(e4_nr_side_chain_atoms_dic[resi])
    ELSE Raise("KeyError")

e4_compactness_dic ==
    [A |-> 1000, R |-> 6000, N |-> 3000, D |-> 3000, C |-> 2000, Q |-> 4000, E |-> 4000, G |-> 0,
     H |-> 4000, I |-> 3000, L |-> 3000, K |-> 6000, M |-> 4000, F |-> 5000, P |-> 2000,
     S |-> 2000, T |-> 2000, W |-> 6000, Y |-> 6000, V |-> 2000, X |-> 4450]
e4_compactness(resi) ==
    IF resi \in DOMAIN e4_compactness_dic
    THEN Return(e4_compactness_dic[resi])
    ELSE Raise("KeyError")

e4_Hydrophathy_index ==
    [A |-> 250, R |-> -1800, N |-> -640, D |-> -720, C |-> 40, Q |-> -690, E |-> -620,
     G |-> 160, H |-> -400, I |-> 730, L |-> 530, K |-> -1100, M |-> 260, F |-> 610,
     P |-> -70,
     S |-> -260, T |-> -180, W |-> 370, Y |-> 20, V |-> 540, X |-> -500]
e4_hydophobicity(resi) ==
    IF resi \in DOMAIN e4_Hydrophathy_index
    THEN Return(e4_Hydrophathy_index[resi])
    ELSE Raise("KeyError")

e4_charge_dic == [D |-> -1000, K |-> 1000, R |-> 1000, E |-> -1000, H |-> 500]
\* A charge lookup that treats histidine as neutral.
e4_charge_neutralHis(resi) ==
    IF resi \in DOMAIN e4_charge_dic \ {"H"}
    THEN Return(0 + e4_charge_dic[resi])
    ELSE Return(0)
e4_charge(resi) ==
    IF resi \in DOMAIN e4_charge_dic
    THEN Return(0 + e4_charge_dic[resi])
    ELSE Return(0)

(***************************************************************************)
(* Residue encoder of process_encode_VHVL_resseq.py                       *)
(***************************************************************************)
pe_nr_side_chain_atoms_dic ==
    [A |-> 1000, R |-> 7000, N |-> 4000, D |-> 4000, C |-> 2000, Q |-> 5000, E |-> 5000, G |-> 0,
     H |-> 6000, I |-> 4000, L |-> 4000, K |-> 15000, M |-> 4000, F |-> 7000, P |-> 4000,
     S |-> 2000, T |-> 3000, W |-> 10000, Y |-> 8000, V |-> 3000, X |-> 10375]
pe_nr_side_chain_atoms(resi) ==
    IF resi \in DOMAIN pe_nr_side_chain_atoms_dic
    THEN Return(pe_nr_side_chain_atoms_dic[resi])
    ELSE Raise("KeyError")

pe_compactness_dic ==
    [A |-> 1000, R |-> 6000, N |-> 3000, D |-> 3000, C |-> 2000, Q |-> 4000, E |-> 4000, G |-> 0,
     H |-> 4000, I |-> 3000, L |-> 3000, K |-> 6000, M |-> 4000, F |-> 5000, P |-> 2000,
     S |-> 2000, T |-> 2000, W |-> 6000, Y |-> 6000, V |-> 2000, X |-> 4450]
pe_compactness(resi) ==
    IF resi \in DOMAIN pe_compactness_dic
    THEN Return(pe_compactness_dic[resi])
    ELSE Raise("KeyError")

pe_Hydrophathy_index ==
    [A |-> 250, R |-> -1800, N |-> -640, D |-> -720, C |-> 40, Q |-> -690, E |-> -620,
     G |-> 160, H |-> -400, I |-> 730, L |-> 530, K |-> -1100, M |-> 260, F |-> 610,
     P |-> -70,
     S |-> -260, T |-> -180, W |-> 370, Y |-> 20, V |-> 540, X |-> -500]
pe_hydophobicity(resi) ==
    IF resi \in DOMAIN pe_Hydrophathy_index
    THEN Return(pe_Hydrophathy_index[resi])
    ELSE Raise("KeyError")

pe_charge_dic == [D |-> -1000, K |-> 1000, R |-> 1000, E |-> -1000, H |-> 500]
pe_charge(resi) ==
    IF resi \in DOMAIN pe_charge_dic
    THEN Return(0 + pe_charge_dic[resi])
    ELSE Return(0)

(***************************************************************************)
(* Residue encoder of runGBRegmodel.py                                    *)
(***************************************************************************)
rg_nr_side_chain_atoms_dic ==
    [A |-> 1000, R |-> 7000, N |-> 4000, D |-> 4000, C |-> 2000, Q |-> 5000, E |-> 5000, G |-> 0,
     H |-> 6000, I |-> 4000, L |-> 4000, K |-> 15000, M |-> 4000, F |-> 7000, P |-> 4000,
     S |-> 2000, T |-> 3000, W |-> 10000, Y |-> 8000, V |-> 3000, X |-> 10375]
rg_nr_side_chain_atoms(resi) ==
    IF resi \in DOMAIN rg_nr_side_chain_atoms_dic
    THEN Return(rg_nr_side_chain_atoms_dic[resi])
    ELSE Raise("KeyError")

rg_compactness_dic ==
    [A |-> 1000, R |-> 6000, N |-> 3000, D |-> 3000, C |-> 2000, Q |-> 4000, E |-> 4000, G |-> 0,
     H |-> 4000, I |-> 3000, L |-> 3000, K |-> 6000, M |-> 4000, F |-> 5000, P |-> 2000,
     S |-> 2000, T |-> 2000, W |-> 6000, Y |-> 6000, V |-> 2000, X |-> 4450]
rg_compactness(resi) ==
    IF resi \in DOMAIN rg_compactness_dic
    THEN Return(rg_compactness_dic[resi])
    ELSE Raise("KeyError")

rg_Hydrophathy_index ==
    [A |-> 250, R |-> -1800, N |-> -640, D |-> -720, C |-> 40, Q |-> -690, E |-> -620,
     G |-> 160, H |-> -400, I |-> 730, L |-> 530, K |-> -1100, M |-> 260, F |-> 610,
     P |-> -70,
     S |-> -260, T |-> -180, W |-> 370, Y |-> 20, V |-> 540, X |-> -500]
rg_hydophobicity(resi) ==
    IF resi \in DOMAIN rg_Hydrophathy_index
    THEN Return(rg_Hydrophathy_index[resi])
    ELSE Raise("KeyError")

rg_charge_dic == [D |-> -1000, K |-> 1000, R |-> 1000, E |-> -1000, H |-> 500]
rg_charge(resi) ==
    IF resi \in DOMAIN rg_charge_dic
    THEN Return(0 + rg_charge_dic[resi])
    ELSE Return(0)

(***************************************************************************)
(* Residue encoder of abYpack_singfile.py                                 *)
(***************************************************************************)
ab_nr_side_chain_atoms_dic ==
    [A |-> 1000, R |-> 7000, N |-> 4000, D |-> 4000, C |-> 2000, Q |-> 5000, E |-> 5000, G |-> 0,
     H |-> 6000, I |-> 4000, L |-> 4000, K |-> 15000, M |-> 4000, F |-> 7000, P |-> 4000,
     S |-> 2000, T |-> 3000, W |-> 10000, Y |-> 8000, V |-> 3000, X |-> 10375]
ab_nr_side_chain_atoms(resi) ==
    IF resi \in DOMAIN ab_nr_side_chain_atoms_dic
    THEN Return(ab_nr_side_chain_atoms_dic[resi])
    ELSE Return(0)

ab_compactness_dic ==
    [A |-> 1000, R |-> 6000, N |-> 3000, D |-> 3000, C |-> 2000, Q |-> 4000, E |-> 4000, G |-> 0,
     H |-> 4000, I |-> 3000, L |-> 3000, K |-> 6000, M |-> 4000, F |-> 5000, P |-> 2000,
     S |-> 2000, T |-> 2000, W |-> 6000, Y |-> 6000, V |-> 2000, X |-> 4450]
ab_compactness(resi) ==
    IF resi \in DOMAIN ab_compactness_dic
    THEN Return(ab_compactness_dic[resi])
    ELSE Return(0)

ab_Hydrophathy_index ==
    [A |-> 250, R |-> -1800, N |-> -640, D |-> -720, C |-> 40, Q |-> -690, E |-> -620,
     G |-> 160, H |-> -400, I |-> 730, L |-> 530, K |-> -1100, M |-> 260, F |-> 610,
     P |-> -70,
     S |-> -260, T |-> -180, W |-> 370, Y |-> 20, V |-> 540, X |-> -500]
ab_hydrophobicity(resi) ==
    IF resi \in DOMAIN ab_Hydrophathy_index
    THEN Return(ab_Hydrophathy_index[resi])
    ELSE Return(0)

ab_charge_dic == [D |-> -1000, K |-> 1000, R |-> 1000, E |-> -1000, H |-> 500]
ab_charge(resi) ==
    IF resi \in DOMAIN ab_charge_dic
    THEN Return(0 + ab_charge_dic[resi])
    ELSE Return(0)

(***************************************************************************)
(* The per-residue part of each builder: the four values in the order of   *)
(* the columns p+a, p+b, p+c, p+d that the builder writes them to.         *)
(***************************************************************************)
FirstRaised(results) ==
    \* exceptions propagate from the first call that raises, in call order
    LET bad == {i \in 1..Len(results) : results[i].exc # ""}
    IN  IF bad = {} THEN ""
        ELSE results[CHOOSE i \in bad : \A j \in bad : i <= j].exc

\* encode_4d.encode, body of the loop over one residue: one row
\* (res_charge, res_sc_nr, res_compactness, res_hydrophob) of seq_df.
e4_encode_res(res) ==
    LET charge_of_res           == e4_charge(res)
        hydrophobicity_res      == e4_hydophobicity(res)
        compactness_res         == e4_compactness(res)
        nr_side_chain_atoms_res == e4_nr_side_chain_atoms(res)
        exc == FirstRaised(<<charge_of_res, hydrophobicity_res, compactness_res,
                             nr_side_chain_atoms_res>>)
    IN  IF exc # "" THEN Raise(exc)
        ELSE Return(<<charge_of_res.value, nr_side_chain_atoms_res.value,
                      compactness_res.value, hydrophobicity_res.value>>)

\* process_encode_VHVL_resseq.encode, the same loop body.
pe_encode_res(res) ==
    LET charge_of_res           == pe_charge(res)
        hydrophobicity_res      == pe_hydophobicity(res)
        compactness_res         == pe_compactness(res)
        nr_side_chain_atoms_res == pe_nr_side_chain_atoms(res)
        exc == FirstRaised(<<charge_of_res, hydrophobicity_res, compactness_res,
                             nr_side_chain_atoms_res>>)
    IN  IF exc # "" THEN Raise(exc)
        ELSE Return(<<charge_of_res.value, nr_side_chain_atoms_res.value,
                      compactness_res.value, hydrophobicity_res.value>>)

\* runGBRegmodel.make_param: the value of column param+letter.
rg_make_param(res, letter) ==
    IF letter = "a" THEN rg_nr_side_chain_atoms(res)
    ELSE IF letter = "b" THEN rg_compactness(res)
    ELSE IF letter = "c" THEN rg_hydophobicity(res)
    ELSE rg_charge(res)

Suffixes == <<"a", "b", "c", "d">>

\* runGBRegmodel.seq2df, the loop over the four letters for one residue.
rg_encode_res(res) ==
    LET rs  == [i \in 1..4 |-> rg_make_param(res, Suffixes[i])]
        exc == FirstRaised(rs)
    IN  IF exc # "" THEN Raise(exc) ELSE Return([i \in 1..4 |-> rs[i].value])

\* abYpack_singfile.encode_4d: the four columns made from one column.
ab_encode_4d_res(x) ==
    LET rs  == <<ab_nr_side_chain_atoms(x), ab_charge(x), ab_compactness(x),
                 ab_hydrophobicity(x)>>
        exc == FirstRaised(rs)
    IN  IF exc # "" THEN Raise(exc) ELSE Return([i \in 1..4 |-> rs[i].value])

(***************************************************************************)
(* Inputs of the batch builder.  Entity codes are listed in lexicographic  *)
(* order, the order pandas sorts group keys and merge keys in.             *)
(***************************************************************************)
MaxRecords == 3
MaxAngles  == 2

Codes == <<"X1", "X2">>
CodeSet == {Codes[i] : i \in DOMAIN Codes}

\* The relevant position list of a run of encode_4d.py and the column-name
\* file (--columns) written for it: code, p+a..p+d for every position, angle.
RelevantPositions == <<"L38", "H91">>
FeatureColumns(positions) ==
    [i \in 1..(4 * Len(positions)) |->
        positions[((i - 1) \div 4) + 1] \o Suffixes[((i - 1) % 4) + 1]]
ColumnsFile == <<"code">> \o FeatureColumns(RelevantPositions) \o <<"angle">>

Residues == {"Q", "Y"}
Angles   == {"-45.6", "NaN"}

ResidueRecords ==
    [code : CodeSet,
     pos : {RelevantPositions[i] : i \in DOMAIN RelevantPositions},
     residue : Residues]
SeqsUpTo(S, n) == UNION {[1..k -> S] : k \in 0..n}
\* The residue table is the extractor's output, whose rows are pairwise
\* distinct (prep_table ends with drop_duplicates()) and which is not empty.
ResidueTables ==
    {t \in SeqsUpTo(ResidueRecords, MaxRecords) :
        t # <<>> /\ \A i, j \in DOMAIN t : t[i] = t[j] => i = j}
AngleTables == SeqsUpTo([code : CodeSet, angle : Angles], MaxAngles)

(***************************************************************************)
(* pandas operations used by the scripts.                                  *)
(***************************************************************************)
RECURSIVE Flatten(_)
Flatten(ss) == IF ss = <<>> THEN <<>> ELSE Head(ss) \o Flatten(Tail(ss))

RECURSIVE Remove(_, _)
\* list.remove(x): the first occurrence is removed
Remove(list, x) ==
    IF list = <<>> THEN <<>>
    ELSE IF Head(list) = x THEN Tail(list)
    ELSE <<Head(list)>> \o Remove(Tail(list), x)

\* The distinct codes of a table in sorted order (groupby / merge sort keys).
SortedCodes(rows) ==
    SelectSeq(Codes, LAMBDA c : \E i \in DOMAIN rows : rows[i].code = c)

RowsOf(rows, c) == SelectSeq(rows, LAMBDA r : r.code = c)

Max(S) == CHOOSE x \in S : \A y \in S : y <= x

(***************************************************************************)
(* encode_4d.py                                                            *)
(***************************************************************************)
\* make_res_seq: groupby('code') with 'residue': 'sum' concatenates the
\* residue letters of an entity in row order; the 'L/H position' column is
\* not part of the result.  A string is kept as the sequence of its letters.
e4_make_res_seq(df) ==
    LET keys == SortedCodes(df)
    IN  [k \in 1..Len(keys) |->
            [code |-> keys[k],
             residue |-> [i \in 1..Len(RowsOf(df, keys[k])) |->
                              RowsOf(df, keys[k])[i].residue]]]

\* encode: one row per residue letter of every sequence.
e4_encode(table) ==
    LET perRow(row) ==
            [i \in 1..Len(row.residue) |->
                [code |-> row.code, enc |-> e4_encode_res(row.residue[i])]]
        all == Flatten([k \in 1..Len(table) |-> perRow(table[k])])
        exc == FirstRaised([i \in 1..Len(all) |-> all[i].enc])
    IN  IF exc # "" THEN Raise(exc)
        ELSE Return([i \in 1..Len(all) |->
                        [code            |-> all[i].code,
                         res_charge      |-> all[i].enc.value[1],
                         res_sc_nr       |-> all[i].enc.value[2],
                         res_compactness |-> all[i].enc.value[3],
                         res_hydrophob   |-> all[i].enc.value[4]]])

\* str() of a number, in thousandths.
Str(v) == ToString(v)

\* combine_by_pdb_code, lines 157-184: f'{a},{b},{c},{d},' per row, then
\* groupby('code') sum.  A string of comma-terminated fields is kept as the
\* sequence of its fields.
e4_enc_df(table) ==
    LET res_encoded(row) ==
            <<Str(row.res_charge), Str(row.res_sc_nr), Str(row.res_compactness),
              Str(row.res_hydrophob)>>
        keys == SortedCodes(table)
    IN  [k \in 1..Len(keys) |->
            [code |-> keys[k],
             encoded_res |->
                 Flatten([i \in 1..Len(RowsOf(table, keys[k])) |->
                             res_encoded(RowsOf(table, keys[k])[i])])]]

\* str.split(','): the fields and the empty string after the last comma.
SplitComma(fields) == fields \o <<"">>

\* pd.DataFrame(list of lists, columns=...): rows shorter than the longest
\* are padded with None; the longest row must have as many fields as there
\* are column names.
DataFrameFromLists(lists, columns) ==
    LET width == Max({Len(lists[k]) : k \in DOMAIN lists})
    IN  IF lists # <<>> /\ width # Len(columns) THEN Raise("ValueError")
        ELSE Return([columns |-> columns,
                     data |-> [k \in 1..Len(lists) |->
                                  [j \in 1..Len(columns) |->
                                      IF j <= Len(lists[k]) THEN lists[k][j]
                                      ELSE "None"]]])

\* iloc[:, :-1]
DropLastColumn(df) ==
    [columns |-> SubSeq(df.columns, 1, Len(df.columns) - 1),
     data |-> [k \in 1..Len(df.data) |->
                  SubSeq(df.data[k], 1, Len(df.columns) - 1)]]

\* combine_by_pdb_code, lines 186-205: the table of encoded residues.
e4_encoded_df(table, col_names) ==
    LET enc_df == e4_enc_df(table)
        col2   == Remove(Remove(col_names, "code") \o <<"trash">>, "angle")
        made   == DataFrameFromLists(
                      [k \in 1..Len(enc_df) |-> SplitComma(enc_df[k].encoded_res)],
                      col2)
    IN  IF made.exc # "" THEN Raise(made.exc)
        ELSE LET res == DropLastColumn(made.value)
             IN  Return([columns |-> <<"code">> \o res.columns,
                         data |-> [k \in 1..Len(enc_df) |->
                                      <<enc_df[k].code>> \o res.data[k]]])

\* pd.merge(left, right, how="right", on=["code"], sort=True): one row per
\* row of the angle table, in key order; the features of the entity with the
\* same code, or NaN in every feature column when there is none.
MergeRight(left, right) ==
    LET keys == SortedCodes(right)
        nfeat == Len(left.columns) - 1
        feats(c) ==
            LET m == SelectSeq(left.data, LAMBDA r : r[1] = c)
            IN  IF m = <<>> THEN <<[j \in 1..nfeat |-> "NaN"]>>
                ELSE [i \in 1..Len(m) |-> Tail(m[i])]
        rowsFor(c) ==
            Flatten([i \in 1..Len(RowsOf(right, c)) |->
                        [j \in 1..Len(feats(c)) |->
                            <<c>> \o feats(c)[j] \o <<RowsOf(right, c)[i].angle>>]])
    IN  [columns |-> left.columns \o <<"angle">>,
         data |-> Flatten([k \in 1..Len(keys) |-> rowsFor(keys[k])])]

IsMissing(cell) == cell \in {"NaN", "None"}

\* A cleaning step that replaces blanks and removes no row.
DropNa_keepRows(df) ==
    [columns |-> df.columns,
     data |-> [k \in 1..Len(df.data) |->
                 [j \in 1..Len(df.data[k]) |->
                     IF df.data[k][j] = "" THEN "NaN" ELSE df.data[k][j]]]]
\* replace('', NaN, inplace=True); dropna(axis=0, how='any', inplace=True)
DropNa(df) ==
    LET replaced ==
            [k \in 1..Len(df.data) |->
                [j \in 1..Len(df.data[k]) |->
                    IF df.data[k][j] = "" THEN "NaN" ELSE df.data[k][j]]]
    IN  [columns |-> df.columns,
         data |-> SelectSeq(replaced,
                      LAMBDA r : \A j \in DOMAIN r : ~IsMissing(r[j]))]

\* combine_by_pdb_code, lines 207-221: the merge with the angle table and
\* the removal of rows with blanks.
e4_training_df(encoded, angles) == DropNa(MergeRight(encoded, angles))

(***************************************************************************)
(* process_encode_VHVL_resseq.py                                           *)
(***************************************************************************)
\* The positions whose columns combine_by_pdb_code names, lines 217-223.
pe_positions == <<"L38", "L40", "L41", "L44", "L46", "L87", "H33", "H42", "H45",
                  "H60", "H62", "H91", "H105">>

\* Residue tables for this script: per entity no record, a record for every
\* position (in order), or a record for every position but the last.
PeBlock(c, n, r) == [i \in 1..n |-> [code |-> c, pos |-> pe_positions[i], residue |-> r]]
PeResidueTables ==
    {Flatten([k \in 1..Len(Codes) |-> PeBlock(Codes[k], n[k], r[k])]) :
        n \in [1..Len(Codes) -> {0, Len(pe_positions) - 1, Len(pe_positions)}],
        r \in [1..Len(Codes) -> Residues]} \ {<<>>}

pe_make_res_seq(rfile) ==
    LET keys == SortedCodes(rfile)
    IN  [k \in 1..Len(keys) |->
            [code |-> keys[k],
             residue |-> [i \in 1..Len(RowsOf(rfile, keys[k])) |->
                              RowsOf(rfile, keys[k])[i].residue]]]

pe_encode(table) ==
    LET perRow(row) ==
            [i \in 1..Len(row.residue) |->
                [code |-> row.code, enc |-> pe_encode_res(row.residue[i])]]
        all == Flatten([k \in 1..Len(table) |-> perRow(table[k])])
        exc == FirstRaised([i \in 1..Len(all) |-> all[i].enc])
    IN  IF exc # "" THEN Raise(exc)
        ELSE Return([i \in 1..Len(all) |->
                        [code            |-> all[i].code,
                         res_charge      |-> all[i].enc.value[1],
                         res_sc_nr       |-> all[i].enc.value[2],
                         res_compactness |-> all[i].enc.value[3],
                         res_hydrophob   |-> all[i].enc.value[4]]])

\* combine_by_pdb_code, lines 181-207: '{}, {}, {}, {}, ' per row, summed per
\* code; a string of ', '-terminated fields is kept as the sequence of them.
pe_enc_df(table) ==
    LET res_encoded(row) ==
            <<Str(row.res_charge), Str(row.res_sc_nr), Str(row.res_compactness),
              Str(row.res_hydrophob)>>
        keys == SortedCodes(table)
    IN  [k \in 1..Len(keys) |->
            [code |-> keys[k],
             encoded_res |->
                 Flatten([i \in 1..Len(RowsOf(table, keys[k])) |->
                             res_encoded(RowsOf(table, keys[k])[i])])]]

\* combine_by_pdb_code, lines 210-229.
pe_encoded_df(table) ==
    LET enc_df == pe_enc_df(table)
        made   == DataFrameFromLists(
                      [k \in 1..Len(enc_df) |-> SplitComma(enc_df[k].encoded_res)],
                      FeatureColumns(pe_positions) \o <<"trash">>)
    IN  IF made.exc # "" THEN Raise(made.exc)
        ELSE LET res == DropLastColumn(made.value)
             IN  Return([columns |-> <<"code">> \o res.columns,
                         data |-> [k \in 1..Len(enc_df) |->
                                      <<enc_df[k].code>> \o res.data[k]]])

\* combine_by_pdb_code, lines 231-241: the merge is the returned table.
pe_training_df(encoded, angles) == MergeRight(encoded, angles)

(***************************************************************************)
(* Main programs of the two batch scripts.                                 *)
(***************************************************************************)
EmptyFrame == [columns |-> <<>>, data |-> <<>>]

encVars    == <<enc_in, enc_out>>
batchVars  == <<script, res_df, angle_file, seq_df, parameters, encoded_df,
                training_df, pc>>
singleVars == <<s_script, seq_file, pivot_drops, data, loopdf, encdf, fulldf,
                line_no, dRes, l1_res, h2_res, h3_res, rg_df, s_pc>>
extVars    == <<pdb_lines, init_table, VHVLtable, x_pc>>
parseVars  == <<f_script, f_lines, f_table, f_out, f_pc>>
redVars    == <<trainset, testset, df_train, df_test, g_model, result_df, g_pc>>
predVars   == <<m_function, m_columns, X_test, predict_called, m_pc>>
rerunVars  == <<run_no, first_run>>
dirVars    == <<d_script, d_listing, d_i, d_open, pdb_dict, file_data, df_ang, d_pc>>
vars == <<encVars, batchVars, singleVars, extVars, parseVars, redVars, predVars,
         rerunVars, dirVars>>

otherThanEnc ==
    <<batchVars, singleVars, extVars, parseVars, redVars, predVars, rerunVars, dirVars>>
otherThanBatch ==
    <<encVars, singleVars, extVars, parseVars, redVars, predVars, rerunVars, dirVars>>
otherThanSingle ==
    <<encVars, batchVars, extVars, parseVars, redVars, predVars, rerunVars, dirVars>>
otherThanExt ==
    <<encVars, batchVars, singleVars, parseVars, redVars, predVars, rerunVars, dirVars>>
otherThanParse ==
    <<encVars, batchVars, singleVars, extVars, redVars, predVars, rerunVars, dirVars>>
otherThanRed ==
    <<encVars, batchVars, singleVars, extVars, parseVars, predVars, rerunVars, dirVars>>
otherThanPred ==
    <<encVars, batchVars, singleVars, extVars, parseVars, redVars, rerunVars, dirVars>>

otherThanDir ==
    <<encVars, batchVars, singleVars, extVars, parseVars, redVars, predVars, rerunVars>>

RedIdle ==
    /\ trainset = <<>> /\ testset = <<>> /\ df_train = <<>> /\ df_test = <<>>
    /\ g_model = [built |-> FALSE, X_train |-> <<>>]
    /\ result_df = [written |-> FALSE, code |-> <<>>]
    /\ g_pc = ""

RerunIdle == run_no = 0 /\ first_run = <<>>

DirIdle ==
    /\ d_script = "" /\ d_listing = <<>> /\ d_i = 0 /\ d_open = {}
    /\ pdb_dict = <<>> /\ file_data = <<>> /\ df_ang = EmptyFrame /\ d_pc = ""

PredIdle ==
    /\ m_function = "" /\ m_columns = <<>> /\ X_test = <<>>
    /\ predict_called = FALSE /\ m_pc = ""

ParseIdle ==
    f_script = "" /\ f_lines = <<>> /\ f_table = <<>> /\ f_out = <<>> /\ f_pc = ""

ExtIdle == pdb_lines = <<>> /\ init_table = <<>> /\ VHVLtable = <<>> /\ x_pc = ""

SingleIdle ==
    /\ s_script = "" /\ seq_file = <<>> /\ pivot_drops = FALSE /\ data = <<>>
    /\ loopdf = EmptyFrame /\ fulldf = EmptyFrame
    /\ encdf = EmptyFrame /\ line_no = 0 /\ dRes = <<>> /\ l1_res = <<>>
    /\ h2_res = <<>> /\ h3_res = <<>> /\ rg_df = EmptyFrame /\ s_pc = ""

EncIdle == enc_in = "" /\ enc_out = <<>>
BatchIdle ==
    /\ script = "" /\ res_df = <<>> /\ angle_file = <<>> /\ seq_df = <<>>
    /\ parameters = <<>> /\ encoded_df = EmptyFrame /\ training_df = EmptyFrame
    /\ pc = ""

BatchInit ==
    /\ script \in {"encode_4d", "process_encode_VHVL_resseq"}
    /\ res_df \in IF script = "encode_4d" THEN ResidueTables ELSE PeResidueTables
    /\ angle_file \in AngleTables
    /\ seq_df = <<>>
    /\ parameters = <<>>
    /\ encoded_df = EmptyFrame
    /\ training_df = EmptyFrame
    /\ pc = "start"

\* encode_4d.py line 235
E4_make_res_seq ==
    /\ script = "encode_4d" /\ pc = "start"
    /\ seq_df' = e4_make_res_seq(res_df)
    /\ pc' = "res_seq"
    /\ UNCHANGED <<script, res_df, angle_file, parameters, encoded_df, training_df>>
    /\ UNCHANGED otherThanBatch

E4_encode_append ==
    /\ script = "encode_4d" /\ pc = "res_seq"
    /\ LET r == e4_encode(seq_df)
       IN  IF r.exc # "" THEN pc' = r.exc /\ UNCHANGED parameters
           ELSE pc' = "parameters" /\ parameters' = parameters \o r.value
    /\ UNCHANGED <<script, res_df, angle_file, seq_df, encoded_df, training_df>>
    /\ UNCHANGED otherThanBatch

\* encode_4d.py line 237
E4_encode ==
    /\ script = "encode_4d" /\ pc = "res_seq"
    /\ LET r == e4_encode(seq_df)
       IN  IF r.exc # "" THEN pc' = r.exc /\ UNCHANGED parameters
           ELSE pc' = "parameters" /\ parameters' = r.value
    /\ UNCHANGED <<script, res_df, angle_file, seq_df, encoded_df, training_df>>
    /\ UNCHANGED otherThanBatch

\* encode_4d.py lines 239-242
E4_combine_by_pdb_code ==
    /\ script = "encode_4d" /\ pc = "parameters"
    /\ LET r == e4_encoded_df(parameters, ColumnsFile)
       IN  IF r.exc # "" THEN pc' = r.exc /\ UNCHANGED <<encoded_df, training_df>>
           ELSE /\ encoded_df' = r.value
                /\ training_df' = e4_training_df(r.value, angle_file)
                /\ pc' = "done"
    /\ UNCHANGED <<script, res_df, angle_file, seq_df, parameters>>
    /\ UNCHANGED otherThanBatch

\* process_encode_VHVL_resseq.py line 251
PE_make_res_seq ==
    /\ script = "process_encode_VHVL_resseq" /\ pc = "start"
    /\ seq_df' = pe_make_res_seq(res_df)
    /\ pc' = "res_seq"
    /\ UNCHANGED <<script, res_df, angle_file, parameters, encoded_df, training_df>>
    /\ UNCHANGED otherThanBatch

\* process_encode_VHVL_resseq.py line 255
PE_encode ==
    /\ script = "process_encode_VHVL_resseq" /\ pc = "res_seq"
    /\ LET r == pe_encode(seq_df)
       IN  IF r.exc # "" THEN pc' = r.exc /\ UNCHANGED parameters
           ELSE pc' = "parameters" /\ parameters' = r.value
    /\ UNCHANGED <<script, res_df, angle_file, seq_df, encoded_df, training_df>>
    /\ UNCHANGED otherThanBatch

\* process_encode_VHVL_resseq.py line 258
PE_combine_by_pdb_code ==
    /\ script = "process_encode_VHVL_resseq" /\ pc = "parameters"
    /\ LET r == pe_encoded_df(parameters)
       IN  IF r.exc # "" THEN pc' = r.exc /\ UNCHANGED <<encoded_df, training_df>>
           ELSE /\ encoded_df' = r.value
                /\ training_df' = pe_training_df(r.value, angle_file)
                /\ pc' = "done"
    /\ UNCHANGED <<script, res_df, angle_file, seq_df, parameters>>
    /\ UNCHANGED otherThanBatch

BatchNext ==
    \/ E4_make_res_seq \/ E4_encode \/ E4_combine_by_pdb_code
    \/ PE_make_res_seq \/ PE_encode \/ PE_combine_by_pdb_code

InitBatch ==
    EncIdle /\ BatchInit /\ SingleIdle /\ ExtIdle /\ ParseIdle /\ RedIdle /\ PredIdle
    /\ RerunIdle /\ DirIdle
SpecBatch == InitBatch /\ [][BatchNext]_vars

(***************************************************************************)
(* encode_4d.py run a second time on the same residue table, angle table   *)
(* and column-name file.  What the first run left in the variables is      *)
(* still there when the second run starts.                                 *)
(***************************************************************************)
E4_Stages == {"start", "res_seq", "parameters"}

RerunInit == run_no = 1 /\ first_run = <<>>

\* The program is started again once the first run has ended, with the table
\* written (lines 241-242) or with an exception.
E4_second_run ==
    /\ script = "encode_4d" /\ run_no = 1
    /\ pc \notin E4_Stages
    /\ first_run' = [pc |-> pc, results |-> training_df]
    /\ run_no' = 2
    /\ pc' = "start"
    /\ UNCHANGED <<script, res_df, angle_file, seq_df, parameters, encoded_df,
                   training_df>>
    /\ UNCHANGED <<encVars, singleVars, extVars, parseVars, redVars, predVars, dirVars>>

RerunNext ==
    \/ E4_make_res_seq \/ E4_encode \/ E4_combine_by_pdb_code \/ E4_second_run
InitRerun ==
    EncIdle /\ (BatchInit /\ script = "encode_4d") /\ SingleIdle /\ ExtIdle /\ ParseIdle
    /\ RedIdle /\ PredIdle /\ RerunInit /\ DirIdle
SpecRerun == InitRerun /\ [][RerunNext]_vars

(***************************************************************************)
(* The four copies of the residue encoder applied to one symbol.           *)
(***************************************************************************)
Files == {"encode_4d", "process_encode_VHVL_resseq", "runGBRegmodel", "abYpack_singfile"}

EncResults(f, resi) ==
    IF f = "encode_4d" THEN
        [nr_side_chain_atoms |-> e4_nr_side_chain_atoms(resi),
         compactness |-> e4_compactness(resi),
         hydrophobicity |-> e4_hydophobicity(resi),
         charge |-> e4_charge(resi),
         row |-> e4_encode_res(resi)]
    ELSE IF f = "process_encode_VHVL_resseq" THEN
        [nr_side_chain_atoms |-> pe_nr_side_chain_atoms(resi),
         compactness |-> pe_compactness(resi),
         hydrophobicity |-> pe_hydophobicity(resi),
         charge |-> pe_charge(resi),
         row |-> pe_encode_res(resi)]
    ELSE IF f = "runGBRegmodel" THEN
        [nr_side_chain_atoms |-> rg_nr_side_chain_atoms(resi),
         compactness |-> rg_compactness(resi),
         hydrophobicity |-> rg_hydophobicity(resi),
         charge |-> rg_charge(resi),
         row |-> rg_encode_res(resi)]
    ELSE
        [nr_side_chain_atoms |-> ab_nr_side_chain_atoms(resi),
         compactness |-> ab_compactness(resi),
         hydrophobicity |-> ab_hydrophobicity(resi),
         charge |-> ab_charge(resi),
         row |-> ab_encode_4d_res(resi)]

EncInit == enc_in \in Symbols /\ enc_out = <<>>

CallEncoder(f) ==
    /\ enc_in # ""
    /\ f \notin DOMAIN enc_out
    /\ enc_out' = enc_out @@ (f :> EncResults(f, enc_in))
    /\ UNCHANGED <<enc_in, otherThanEnc>>

E4_Encoder == CallEncoder("encode_4d")
PE_Encoder == CallEncoder("process_encode_VHVL_resseq")
RG_Encoder == CallEncoder("runGBRegmodel")
AB_Encoder == CallEncoder("abYpack_singfile")

EncNext == E4_Encoder \/ PE_Encoder \/ RG_Encoder \/ AB_Encoder

InitEncoder ==
    EncInit /\ BatchIdle /\ SingleIdle /\ ExtIdle /\ ParseIdle /\ RedIdle /\ PredIdle
    /\ RerunIdle /\ DirIdle
SpecEncoder == InitEncoder /\ [][EncNext]_vars

(***************************************************************************)
(* Single-entity builders: inputs.  A line of the sequence file is kept as *)
(* the list of its whitespace-separated tokens (line.split()).             *)
(***************************************************************************)
MaxLines == 2

\* Position labels in lexicographic (string) order, the order in which
\* pandas sorts group keys.
LexOrder ==
    <<"H100", "H1003G", "H100A", "H100B", "H100C", "H100D", "H100E", "H100F",
      "H100G", "H103", "H105", "H33", "H35", "H39", "H42", "H45", "H47", "H50",
      "H60", "H62", "H91", "H95", "H99", "L1", "L24", "L32", "L34", "L36", "L38",
      "L40", "L41", "L43", "L44", "L46", "L50", "L86", "L87", "L89", "L91", "L96",
      "L98">>
SortLabels(S) == SelectSeq(LexOrder, LAMBDA l : l \in S)

LinePositions == {"L32", "H50", "H100", "L1"}
FirstChar(token) ==
    IF token \in {"L32", "L1"} THEN "L"
    ELSE IF token \in {"H50", "H100"} THEN "H"
    ELSE "R"
MalformedLines == {<<>>, <<"L32">>, <<"REMARK", "1">>}
AbLines == {<<p, r>> : p \in LinePositions, r \in {"Q", "Y", "B"}} \cup MalformedLines
RgLines == {<<p, r>> : p \in LinePositions, r \in {"GLN", "TYR", "HOH"}}
           \cup MalformedLines
Range(f) == {f[i] : i \in DOMAIN f}
Contains(list, x) == \E i \in DOMAIN list : list[i] = x

(***************************************************************************)
(* abYpack_singfile.py                                                     *)
(***************************************************************************)
ab_good_positions ==
    <<"L32", "L34", "L36", "L38", "L40", "L41", "L43", "L44", "L46", "L50", "L86",
      "L87", "L89", "L91", "L96", "L98", "H33", "H35", "H39", "H42", "H45", "H47",
      "H50", "H60", "H62", "H91", "H99", "H100", "H100A", "H100B", "H100C", "H100D",
      "H100E", "H100F", "H1003G", "H103", "H105">>

\* seq2df: the lines starting with 'L' or 'H' give (code, position, residue).
ab_seq2df(lines, pdb_code) ==
    LET kept == SelectSeq(lines,
                    LAMBDA l : l # <<>> /\ FirstChar(l[1]) \in {"L", "H"})
    IN  IF \E i \in DOMAIN kept : Len(kept[i]) < 2 THEN Raise("IndexError")
        ELSE Return([i \in 1..Len(kept) |->
                        [code |-> pdb_code, pos |-> kept[i][1], residue |-> kept[i][2]]])

\* drop_duplicates(subset=['code', 'L/H position'], keep='first')
DropDuplicatesCodePos(rows) ==
    LET first(i) == \A j \in 1..(i - 1) :
                        ~(rows[j].code = rows[i].code /\ rows[j].pos = rows[i].pos)
        idx == {i \in DOMAIN rows : first(i)}
        RECURSIVE Pick(_)
        Pick(i) == IF i > Len(rows) THEN <<>>
                   ELSE (IF i \in idx THEN <<rows[i]>> ELSE <<>>) \o Pick(i + 1)
    IN  Pick(1)

\* The value pandas gives the 'sum' of a group whose only residue is NaN.
NaNSum == "0"

\* encode_df, lines 114-128: one column per position, in the sorted order of
\* the pivot's group keys; a position the file lacks has a NaN row, whose
\* group the pivot keeps with the value NaNSum or drops (pivot_drops).
ab_pivot(rows, drops) ==
    LET dedup  == DropDuplicatesCodePos(rows)
        good   == SelectSeq(dedup, LAMBDA r : Contains(ab_good_positions, r.pos))
        col_list == {good[i].pos : i \in DOMAIN good}
        keys   == SortLabels(IF drops THEN col_list ELSE Range(ab_good_positions))
        cell(p) == IF p \in col_list
                   THEN (CHOOSE i \in DOMAIN good : good[i].pos = p)
                   ELSE 0
    IN  [columns |-> keys,
         data |-> <<[k \in 1..Len(keys) |->
                       IF cell(keys[k]) = 0 THEN NaNSum
                       ELSE good[cell(keys[k])].residue]>>]

\* encode_4d(df): for every column, in order, four columns are added at the
\* end and the column is deleted.
ab_encode_4d(piv) ==
    [columns |-> FeatureColumns(piv.columns),
     data |-> <<[i \in 1..(4 * Len(piv.columns)) |->
                   ab_encode_4d_res(piv.data[1][((i - 1) \div 4) + 1])
                       .value[((i - 1) % 4) + 1]]>>]

ab_encode_df(rows, drops) == ab_encode_4d(ab_pivot(rows, drops))

ab_cdrL1_pos == [i \in 1..11 |-> "L" \o ToString(23 + i)]
ab_cdrH2_pos == [i \in 1..9  |-> "H" \o ToString(49 + i)]
ab_cdrH3_pos == [i \in 1..8  |-> "H" \o ToString(94 + i)]

\* len() of a residue token of the sequence files.
StrLen(token) == IF token \in {"GLN", "TYR", "HOH"} THEN 3 ELSE 1

RECURSIVE SumStrLen(_)
\* The length of the concatenation of the rows' residue strings.
SumStrLen(rows) ==
    IF rows = <<>> THEN 0 ELSE StrLen(Head(rows).residue) + SumStrLen(Tail(rows))

\* loop_df.calc_loop_length: the rows at the loop's positions, grouped by
\* code; groupby(...).sum() concatenates the residue strings of a group and
\* str.len() is the length of that string.
ab_calc_loop_length(df, pos_list) ==
    LET df_loop == SelectSeq(df, LAMBDA r : Contains(pos_list, r.pos))
        keys == SortedCodes(df_loop)
    IN  [k \in 1..Len(keys) |->
            [code |-> keys[k], length |-> SumStrLen(RowsOf(df_loop, keys[k]))]]

\* loop_df: the three loop tables merged on 'code' (inner joins), so a code
\* has a row only if it has a row in each of the three.
ab_loop_df(df) ==
    LET l1_df == ab_calc_loop_length(df, ab_cdrL1_pos)
        h2_df == ab_calc_loop_length(df, ab_cdrH2_pos)
        h3_df == ab_calc_loop_length(df, ab_cdrH3_pos)
        of(t, c) == t[CHOOSE k \in DOMAIN t : t[k].code = c].length
        both == SelectSeq(l1_df, LAMBDA r :
                    /\ \E k \in DOMAIN h2_df : h2_df[k].code = r.code
                    /\ \E k \in DOMAIN h3_df : h3_df[k].code = r.code)
    IN  [columns |-> <<"code", "L1_length", "H2_length", "H3_length">>,
         data |-> [k \in 1..Len(both) |->
                      <<both[k].code, both[k].length, of(h2_df, both[k].code),
                        of(h3_df, both[k].code)>>]]

\* pd.concat([left, right], axis=1): the rows are matched by index; a frame
\* that lacks a row has NaN in its columns.
ConcatColumns(left, right) ==
    LET n == Max({Len(left.data), Len(right.data)})
        cells(f, i) == IF i <= Len(f.data) THEN f.data[i]
                       ELSE [j \in 1..Len(f.columns) |-> "NaN"]
    IN  [columns |-> left.columns \o right.columns,
         data |-> [i \in 1..n |-> cells(left, i) \o cells(right, i)]]

(***************************************************************************)
(* runGBRegmodel.py                                                        *)
(***************************************************************************)
rg_one_letter_code_dic ==
    [CYS |-> "C", ASP |-> "D", SER |-> "S", GLN |-> "Q", LYS |-> "K", ILE |-> "I",
     PRO |-> "P", THR |-> "T", PHE |-> "F", ASN |-> "N", GLY |-> "G", HIS |-> "H",
     LEU |-> "L", ARG |-> "R", TRP |-> "W", ALA |-> "A", VAL |-> "V", GLU |-> "E",
     TYR |-> "Y", MET |-> "M", XAA |-> "X", UNK |-> "X"]
rg_one_letter_code(res) ==
    IF res \notin DOMAIN rg_one_letter_code_dic THEN Raise("ValueError")
    ELSE Return(rg_one_letter_code_dic[res])

rg_good_positions ==
    <<"L32", "L34", "L36", "L38", "L43", "L44", "L46", "L50", "L86", "L87", "L89",
      "L91", "L96", "L98", "H35", "H39", "H45", "H47", "H50", "H91", "H99", "H100",
      "H100A", "H100B", "H100C", "H100D", "H100E", "H100F", "H100G", "H103">>
rg_cdrL1_pos == [i \in 1..11 |-> "L" \o ToString(23 + i)]
rg_cdrH2_pos == [i \in 1..9  |-> "H" \o ToString(49 + i)]
rg_cdrH3_pos == [i \in 1..8  |-> "H" \o ToString(94 + i)]

\* dict[key] = value: an existing key keeps its place, a new key goes last.
DictSet(d, key, value) ==
    IF \E i \in DOMAIN d : d[i].key = key
    THEN [i \in DOMAIN d |-> IF d[i].key = key THEN [key |-> key, value |-> value]
                             ELSE d[i]]
    ELSE Append(d, [key |-> key, value |-> value])
\* The same for a list of (key, value) with distinct keys, in list order.
DictSetAll(d, kvs) ==
    [i \in DOMAIN d |->
        IF \E j \in DOMAIN kvs : kvs[j].key = d[i].key
        THEN kvs[CHOOSE j \in DOMAIN kvs : kvs[j].key = d[i].key]
        ELSE d[i]]
    \o SelectSeq(kvs, LAMBDA kv : \A i \in DOMAIN d : d[i].key # kv.key)
DictGet(d, key) == d[CHOOSE i \in DOMAIN d : d[i].key = key].value
DictKeys(d) == [i \in DOMAIN d |-> d[i].key]

\* seq2df, lines 92-95: every feature column is set to 0.
rg_reset(d) ==
    DictSetAll(d, [i \in 1..Len(FeatureColumns(rg_good_positions)) |->
                      [key |-> FeatureColumns(rg_good_positions)[i], value |-> 0]])

\* seq2df, lines 96-101: the four columns of the line's position.
rg_set_position(d, position, identity) ==
    DictSetAll(d, [i \in 1..4 |->
                      [key |-> position \o Suffixes[i],
                       value |-> rg_make_param(identity, Suffixes[i]).value]])

(***************************************************************************)
(* Main programs of the two single-entity scripts.                         *)
(***************************************************************************)
SingleInit ==
    /\ s_script \in {"abYpack_singfile", "runGBRegmodel"}
    /\ seq_file \in SeqsUpTo(IF s_script = "abYpack_singfile" THEN AbLines ELSE RgLines,
                             MaxLines)
    /\ pivot_drops \in IF s_script = "abYpack_singfile" THEN BOOLEAN ELSE {FALSE}
    /\ data = <<>>
    /\ loopdf = EmptyFrame
    /\ encdf = EmptyFrame
    /\ fulldf = EmptyFrame
    /\ line_no = 0
    /\ dRes = <<>>
    /\ l1_res = <<>>
    /\ h2_res = <<>>
    /\ h3_res = <<>>
    /\ rg_df = EmptyFrame
    /\ s_pc = "start"

\* The entity code of the sequence file (its name without the extension).
PdbCode == "X1"

\* abYpack_singfile.py line 156
AB_seq2df ==
    /\ s_script = "abYpack_singfile" /\ s_pc = "start"
    /\ LET r == ab_seq2df(seq_file, PdbCode)
       IN  IF r.exc # "" THEN s_pc' = r.exc /\ UNCHANGED data
           ELSE s_pc' = "data" /\ data' = r.value
    /\ UNCHANGED <<s_script, seq_file, pivot_drops, loopdf, encdf, fulldf, line_no,
                   dRes, l1_res, h2_res, h3_res, rg_df>>
    /\ UNCHANGED otherThanSingle

\* abYpack_singfile.py line 157
AB_loop_df ==
    /\ s_script = "abYpack_singfile" /\ s_pc = "data"
    /\ loopdf' = ab_loop_df(data)
    /\ s_pc' = "loopdf"
    /\ UNCHANGED <<s_script, seq_file, pivot_drops, data, encdf, fulldf, line_no,
                   dRes, l1_res, h2_res, h3_res, rg_df>>
    /\ UNCHANGED otherThanSingle

\* abYpack_singfile.py line 158
AB_encode_df ==
    /\ s_script = "abYpack_singfile" /\ s_pc = "loopdf"
    /\ encdf' = ab_encode_df(data, pivot_drops)
    /\ s_pc' = "encdf"
    /\ UNCHANGED <<s_script, seq_file, pivot_drops, data, loopdf, fulldf, line_no,
                   dRes, l1_res, h2_res, h3_res, rg_df>>
    /\ UNCHANGED otherThanSingle

\* abYpack_singfile.py line 159
AB_concat ==
    /\ s_script = "abYpack_singfile" /\ s_pc = "encdf"
    /\ fulldf' = ConcatColumns(encdf, loopdf)
    /\ s_pc' = "fulldf"
    /\ UNCHANGED <<s_script, seq_file, pivot_drops, data, loopdf, encdf, line_no,
                   dRes, l1_res, h2_res, h3_res, rg_df>>
    /\ UNCHANGED otherThanSingle

\* abYpack_singfile.py line 160: the argument args.modeldir is evaluated before
\* predict_angle is called; the parser defines --resfile and --model only
\* (lines 150-153), so the attribute lookup raises AttributeError.
AB_predict_angle ==
    /\ s_script = "abYpack_singfile" /\ s_pc = "fulldf"
    /\ s_pc' = "AttributeError"
    /\ UNCHANGED <<s_script, seq_file, pivot_drops, data, loopdf, encdf, fulldf,
                   line_no, dRes, l1_res, h2_res, h3_res, rg_df>>
    /\ UNCHANGED otherThanSingle

\* runGBRegmodel.seq2df, one pass of the loop over the lines (lines 87-109).
RG_seq2df_line ==
    /\ s_script = "runGBRegmodel" /\ s_pc = "start"
    /\ line_no < Len(seq_file)
    /\ LET line_elements == seq_file[line_no + 1]
           position == line_elements[1]
           d1 == rg_reset(dRes)
           isGood == Contains(rg_good_positions, position)
           identity == rg_one_letter_code(line_elements[2])
           d2 == IF isGood THEN rg_set_position(d1, position, identity.value) ELSE d1
           inL1 == Contains(rg_cdrL1_pos, position)
           inH2 == Contains(rg_cdrH2_pos, position)
           inH3 == Contains(rg_cdrH3_pos, position)
           l1 == IF inL1 THEN Append(l1_res, position) ELSE l1_res
           h2 == IF inH2 THEN Append(h2_res, position) ELSE h2_res
           d3 == IF inL1 THEN DictSet(d2, "L1_length", Len(l1)) ELSE d2
           d4 == IF inH2 THEN DictSet(d3, "H2_length", Len(h2)) ELSE d3
           d5 == IF inH3 THEN DictSet(d4, "H3_length", Len(h3_res)) ELSE d4
       IN  IF line_elements = <<>> THEN
               /\ s_pc' = "IndexError"
               /\ UNCHANGED <<dRes, l1_res, h2_res, line_no>>
           ELSE IF isGood /\ Len(line_elements) < 2 THEN
               /\ s_pc' = "IndexError"
               /\ dRes' = d1
               /\ UNCHANGED <<l1_res, h2_res, line_no>>
           ELSE IF isGood /\ identity.exc # "" THEN
               /\ s_pc' = identity.exc
               /\ dRes' = d1
               /\ UNCHANGED <<l1_res, h2_res, line_no>>
           ELSE
               /\ dRes' = d5
               /\ l1_res' = l1
               /\ h2_res' = h2
               /\ line_no' = line_no + 1
               /\ UNCHANGED s_pc
    /\ UNCHANGED <<s_script, seq_file, pivot_drops, data, loopdf, encdf, fulldf,
                   h3_res, rg_df>>
    /\ UNCHANGED otherThanSingle

\* runGBRegmodel.seq2df, lines 110-112: pd.DataFrame(dRes, index=[0])
RG_seq2df_return ==
    /\ s_script = "runGBRegmodel" /\ s_pc = "start"
    /\ line_no = Len(seq_file)
    /\ rg_df' = [columns |-> DictKeys(dRes),
                 data |-> <<[i \in DOMAIN dRes |-> dRes[i].value]>>]
    /\ s_pc' = "done"
    /\ UNCHANGED <<s_script, seq_file, pivot_drops, data, loopdf, encdf, fulldf,
                   line_no, dRes, l1_res, h2_res, h3_res>>
    /\ UNCHANGED otherThanSingle

SingleNext ==
    \/ AB_seq2df \/ AB_loop_df \/ AB_encode_df \/ AB_concat \/ AB_predict_angle
    \/ RG_seq2df_line \/ RG_seq2df_return

InitSingle ==
    EncIdle /\ BatchIdle /\ SingleInit /\ ExtIdle /\ ParseIdle /\ RedIdle /\ PredIdle
    /\ RerunIdle /\ DirIdle
SpecSingle == InitSingle /\ [][SingleNext]_vars

(***************************************************************************)
(* find_VHVLres.py: the position extractor.  An ATOM line is kept as the   *)
(* list of its whitespace-separated tokens (data.split()).                 *)
(***************************************************************************)
MaxAtomLines == 3

AtomLine(residue, chain, res_num) ==
    <<"ATOM", "1", "CA", residue, chain, res_num, "0.0", "0.0", "0.0">>
AtomLines ==
    {AtomLine(r, c, n) : r \in {"GLN", "PRO", "MSE"}, c \in {"L", "H"}, n \in {"38", "91"}}
    \cup {<<"ATOM", "1", "CA">>}

\* Dictionaries code -> ATOM lines with at most MaxAtomLines lines in all.
PdbDicts ==
    {d \in [CodeSet -> SeqsUpTo(AtomLines, MaxAtomLines)] :
        Len(d["X1"]) + Len(d["X2"]) <= MaxAtomLines}

\* utils.one_letter_code(key, residue): the 20 standard codes, XAA and UNK;
\* any other code raises ValueError.
x_one_letter_code_dic ==
    [CYS |-> "C", ASP |-> "D", SER |-> "S", GLN |-> "Q", LYS |-> "K", ILE |-> "I",
     PRO |-> "P", THR |-> "T", PHE |-> "F", ASN |-> "N", GLY |-> "G", HIS |-> "H",
     LEU |-> "L", ARG |-> "R", TRP |-> "W", ALA |-> "A", VAL |-> "V", GLU |-> "E",
     TYR |-> "Y", MET |-> "M", XAA |-> "X", UNK |-> "X"]
x_one_letter_code(key, residue) ==
    IF residue \notin DOMAIN x_one_letter_code_dic THEN Raise("ValueError")
    ELSE Return(x_one_letter_code_dic[residue])

\* prep_table, lines 87-104: the rows of one entity; a line whose residue
\* code is unknown is skipped.
x_rows_of(pdb_code, value) ==
    LET kept == SelectSeq(value, LAMBDA items : x_one_letter_code(pdb_code, items[4]).exc = "")
    IN  [i \in 1..Len(kept) |->
            [code |-> pdb_code,
             chain |-> kept[i][5],
             residue |-> x_one_letter_code(pdb_code, kept[i][4]).value,
             number |-> kept[i][6],
             pos |-> kept[i][5] \o kept[i][6]]]

\* drop_duplicates(): a row equal in every column to an earlier row is removed.
DropDuplicates(rows) ==
    LET RECURSIVE Pick(_)
        Pick(i) == IF i > Len(rows) THEN <<>>
                   ELSE (IF \E j \in 1..(i - 1) : rows[j] = rows[i] THEN <<>>
                         ELSE <<rows[i]>>) \o Pick(i + 1)
    IN  Pick(1)

\* prep_table: items[5] of a line with fewer than six tokens raises IndexError.
x_prep_table(dictionary) ==
    IF \E c \in DOMAIN dictionary : \E i \in DOMAIN dictionary[c] :
           Len(dictionary[c][i]) < 6
    THEN Raise("IndexError")
    ELSE Return(DropDuplicates(
             Flatten([k \in 1..Len(Codes) |-> x_rows_of(Codes[k], dictionary[Codes[k]])])))

x_good_positions ==
    <<"L38", "L40", "L41", "L44", "L46", "L87", "H33", "H42", "H45", "H60", "H62",
      "H91", "H105">>

\* vh_vl_relevant_residues
x_vh_vl_relevant_residues(vtable) ==
    LET kept == SelectSeq(vtable, LAMBDA r : Contains(x_good_positions, r.pos))
    IN  [i \in 1..Len(kept) |->
            [code |-> kept[i].code, pos |-> kept[i].pos, residue |-> kept[i].residue]]

ExtInit ==
    /\ pdb_lines \in PdbDicts
    /\ init_table = <<>>
    /\ VHVLtable = <<>>
    /\ x_pc = "start"

\* find_VHVLres.py line 145
X_prep_table ==
    /\ x_pc = "start"
    /\ LET r == x_prep_table(pdb_lines)
       IN  IF r.exc # "" THEN x_pc' = r.exc /\ UNCHANGED init_table
           ELSE x_pc' = "init_table" /\ init_table' = r.value
    /\ UNCHANGED <<pdb_lines, VHVLtable>>
    /\ UNCHANGED otherThanExt

\* find_VHVLres.py lines 147-150
X_vh_vl_relevant_residues ==
    /\ x_pc = "init_table"
    /\ VHVLtable' = x_vh_vl_relevant_residues(init_table)
    /\ x_pc' = "done"
    /\ UNCHANGED <<pdb_lines, init_table>>
    /\ UNCHANGED otherThanExt

ExtNext == X_prep_table \/ X_vh_vl_relevant_residues

InitExt ==
    EncIdle /\ BatchIdle /\ SingleIdle /\ ExtInit /\ ParseIdle /\ RedIdle /\ PredIdle
    /\ RerunIdle /\ DirIdle
SpecExt == InitExt /\ [][ExtNext]_vars

(***************************************************************************)
(* The two extractors, find_VHVLres.py and findVHVLResidues.py, on ATOM    *)
(* lines kept as sequences of characters.  find_VHVLres.prep_table splits  *)
(* a line at white space; findVHVLResidues.prep_table cuts it at fixed     *)
(* offsets.  The main program of findVHVLResidues.py cannot reach          *)
(* prep_table (read_pdbfiles_as_lines reads the undefined name pdb_direct),*)
(* so its functions are called here on the dictionaries they document.     *)
(***************************************************************************)
MaxPdbLines == 2

\* An ATOM record laid out as the example lines of the docstrings are:
\* 'ATOM   4615  N   GLN L   2     -34.713 ...' (record name, serial, atom
\* name, alternate location, residue name, chain, residue number, insertion
\* letter, x coordinate).
PdbLine(name, altLoc, resName, chain, resSeq, iCode) ==
    <<"A", "T", "O", "M", " ", " ">> \o <<" ", " ", " ", " ", "1">> \o <<" ">>
        \o name \o <<altLoc>> \o resName \o <<" ">> \o <<chain>> \o resSeq
        \o <<iCode>> \o <<" ", " ", " ">>
        \o <<" ", "-", "3", "4", ".", "7", "1", "3">>

AtomNames == {<<<<" ", "C", "A", " ">>, " ">>, <<<<"H", "G", "2", "1">>, "A">>}
ResNames  == {<<"G", "L", "N">>, <<"M", "S", "E">>}
ResSeqs   == {<<" ", " ", "3", "8">>, <<" ", "1", "0", "5">>, <<"1", "0", "5", "0">>}
ICodes    == {" ", "A"}
ShortLine == <<"A", "T", "O", "M", " ", " ", " ", " ", " ", " ", "1">>
PdbLinesSet ==
    {PdbLine(a[1], a[2], r, c, n, i) :
        a \in AtomNames, r \in ResNames, c \in {"L", "H"}, n \in ResSeqs, i \in ICodes}
    \cup {ShortLine}
ParseDicts ==
    {d \in [CodeSet -> SeqsUpTo(PdbLinesSet, MaxPdbLines)] :
        Len(d["X1"]) + Len(d["X2"]) <= MaxPdbLines}

RECURSIVE Join(_)
\* The string whose characters are cs.
Join(cs) == IF cs = <<>> THEN "" ELSE Head(cs) \o Join(Tail(cs))

\* str.split(): the maximal runs of non-blank characters, in order.
Split(line) ==
    LET isStart(i) == line[i] # " " /\ (i = 1 \/ line[i - 1] = " ")
        starts == SelectSeq([i \in 1..Len(line) |-> i], isStart)
        end(i) == CHOOSE j \in i..Len(line) :
                      /\ \A k \in i..j : line[k] # " "
                      /\ (j = Len(line) \/ line[j + 1] = " ")
    IN  [k \in 1..Len(starts) |-> Join(SubSeq(line, starts[k], end(starts[k])))]

\* data[a:b]: the characters at offsets a..b-1 that the line has.
Slice(line, a, b) ==
    IF a >= Len(line) THEN <<>>
    ELSE SubSeq(line, a + 1, IF b < Len(line) THEN b ELSE Len(line))

\* str.strip()
Strip(cs) ==
    LET ink == {i \in DOMAIN cs : cs[i] # " "}
    IN  IF ink = {} THEN <<>>
        ELSE SubSeq(cs, CHOOSE i \in ink : \A j \in ink : i <= j, Max(ink))

\* find_VHVLres.prep_table on the lines' tokens.
p_prep_table(dictionary) ==
    x_prep_table([c \in DOMAIN dictionary |->
                     [i \in 1..Len(dictionary[c]) |-> Split(dictionary[c][i])]])

fv_one_letter_code_dic ==
    [CYS |-> "C", ASP |-> "D", SER |-> "S", GLN |-> "Q", LYS |-> "K", ILE |-> "I",
     PRO |-> "P", THR |-> "T", PHE |-> "F", ASN |-> "N", GLY |-> "G", HIS |-> "H",
     LEU |-> "L", ARG |-> "R", TRP |-> "W", ALA |-> "A", VAL |-> "V", GLU |-> "E",
     TYR |-> "Y", MET |-> "M", XAA |-> "X", UNK |-> "X"]
\* findVHVLResidues.one_letter_code: ValueError when the length is no
\* multiple of 3, else dic[res], a KeyError for a code that is no key.
fv_one_letter_code(res) ==
    IF Len(res) % 3 # 0 THEN Raise("ValueError")
    ELSE IF Join(res) \notin DOMAIN fv_one_letter_code_dic THEN Raise("KeyError")
    ELSE Return(fv_one_letter_code_dic[Join(res)])

\* findVHVLResidues.prep_table, lines 181-192: the row of one ATOM line.  The
\* chain, the number and the position label stay sequences of characters.
fv_res_info(pdb_code, line) ==
    LET res_num == Strip(Slice(line, 23, 27))
        chain   == Strip(Slice(line, 21, 22))
        residue == Strip(Slice(line, 17, 21))
        res_one == fv_one_letter_code(residue)
    IN  IF res_one.exc # "" THEN Raise(res_one.exc)
        ELSE Return([code |-> pdb_code, chain |-> chain, residue |-> res_one.value,
                     number |-> res_num, pos |-> chain \o res_num])

\* findVHVLResidues.prep_table: the rows of all lines of all dictionaries;
\* the first exception of one_letter_code ends the call.
fv_prep_table(dict_list) ==
    LET lines == Flatten([d \in 1..Len(dict_list) |->
                     Flatten([k \in 1..Len(Codes) |->
                         [i \in 1..Len(dict_list[d][Codes[k]]) |->
                             fv_res_info(Codes[k], dict_list[d][Codes[k]][i])]])])
        exc == FirstRaised(lines)
    IN  IF exc # "" THEN Raise(exc)
        ELSE Return(DropDuplicates([i \in 1..Len(lines) |-> lines[i].value]))

fv_patterns ==
    <<<<"L", "3", "8">>, <<"L", "4", "0">>, <<"L", "4", "1">>, <<"L", "4", "4">>,
      <<"L", "4", "6">>, <<"L", "8", "7">>, <<"H", "3", "3">>, <<"H", "4", "2">>,
      <<"H", "4", "5">>, <<"H", "6", "0">>, <<"H", "6", "2">>, <<"H", "9", "1">>,
      <<"H", "1", "0", "5">>>>

\* str.contains(pattern): some alternative occurs somewhere in the string.
StrContains(cs, patterns) ==
    \E k \in DOMAIN patterns : \E i \in 1..Len(cs) :
        /\ i + Len(patterns[k]) - 1 <= Len(cs)
        /\ SubSeq(cs, i, i + Len(patterns[k]) - 1) = patterns[k]

\* findVHVLResidues.vh_vl_relevant_residues
fv_vh_vl_relevant_residues(vtable) ==
    LET kept == SelectSeq(vtable, LAMBDA r : StrContains(r.pos, fv_patterns))
    IN  [i \in 1..Len(kept) |->
            [code |-> kept[i].code, pos |-> kept[i].pos, residue |-> kept[i].residue]]

ParseInit ==
    /\ f_script \in {"find_VHVLres", "findVHVLResidues"}
    /\ f_lines \in ParseDicts
    /\ f_table = <<>>
    /\ f_out = <<>>
    /\ f_pc = "start"

\* find_VHVLres.py line 145
P_prep_table ==
    /\ f_script = "find_VHVLres" /\ f_pc = "start"
    /\ LET r == p_prep_table(f_lines)
       IN  IF r.exc # "" THEN f_pc' = r.exc /\ UNCHANGED f_table
           ELSE f_pc' = "table" /\ f_table' = r.value
    /\ UNCHANGED <<f_script, f_lines, f_out>>
    /\ UNCHANGED otherThanParse

\* find_VHVLres.py line 147
P_vh_vl_relevant_residues ==
    /\ f_script = "find_VHVLres" /\ f_pc = "table"
    /\ f_out' = x_vh_vl_relevant_residues(f_table)
    /\ f_pc' = "done"
    /\ UNCHANGED <<f_script, f_lines, f_table>>
    /\ UNCHANGED otherThanParse

\* findVHVLResidues.py line 232, on a list holding one dictionary
FV_prep_table ==
    /\ f_script = "findVHVLResidues" /\ f_pc = "start"
    /\ LET r == fv_prep_table(<<f_lines>>)
       IN  IF r.exc # "" THEN f_pc' = r.exc /\ UNCHANGED f_table
           ELSE f_pc' = "table" /\ f_table' = r.value
    /\ UNCHANGED <<f_script, f_lines, f_out>>
    /\ UNCHANGED otherThanParse

\* findVHVLResidues.py line 234
FV_vh_vl_relevant_residues ==
    /\ f_script = "findVHVLResidues" /\ f_pc = "table"
    /\ f_out' = fv_vh_vl_relevant_residues(f_table)
    /\ f_pc' = "done"
    /\ UNCHANGED <<f_script, f_lines, f_table>>
    /\ UNCHANGED otherThanParse

ParseNext ==
    \/ P_prep_table \/ P_vh_vl_relevant_residues
    \/ FV_prep_table \/ FV_vh_vl_relevant_residues

InitParse ==
    EncIdle /\ BatchIdle /\ SingleIdle /\ ExtIdle /\ ParseInit /\ RedIdle /\ PredIdle
    /\ RerunIdle /\ DirIdle
SpecParse == InitParse /\ [][ParseNext]_vars

(***************************************************************************)
(* gbr_angle_prediction.py.  The modules it imports for preprocessing      *)
(* (encode_res_calc_angles, erca_noloops, nonred) are not among the        *)
(* sources; their functions are written from the specification's Feature   *)
(* Table Builder and Redundancy Reducer.  An entity of a data set is its    *)
(* code and its residues at the relevant positions.                        *)
(***************************************************************************)
MaxEntities == 3

GbrResidues == {"G", "X"}
ResidueTuples == [1..Len(RelevantPositions) -> GbrResidues]
DataSets(prefix) ==
    UNION {{[i \in 1..n |-> [code |-> prefix[i], residue |-> t[i]]] :
               t \in [1..n -> ResidueTuples]} : n \in 0..MaxEntities}
TrainCodes == <<"T1", "T2", "T3", "T4">>
TestCodes  == <<"E1", "E2", "E3", "E4">>

\* extract_and_export_packing_residues: one feature row per entity, the four
\* values of the encoder for every relevant position in order.
erca_extract_and_export_packing_residues(ds) ==
    [i \in 1..Len(ds) |->
        [code |-> ds[i].code,
         features |-> Flatten([k \in 1..Len(RelevantPositions) |->
                                  e4_encode_res(ds[i].residue[k]).value])]]

\* nonred.NR2 on the encoded table: a row whose feature columns equal those of
\* an earlier row is removed, the first-seen row of each class is kept.
NR2(enc_table) ==
    LET RECURSIVE Pick(_)
        Pick(i) == IF i > Len(enc_table) THEN <<>>
                   ELSE (IF \E j \in 1..(i - 1) :
                                enc_table[j].features = enc_table[i].features
                         THEN <<>> ELSE <<enc_table[i]>>) \o Pick(i + 1)
    IN  Pick(1)

NR2_keepLast(enc_table) ==
    LET RECURSIVE Pick(_)
        Pick(i) == IF i > Len(enc_table) THEN <<>>
                   ELSE (IF \E j \in (i + 1)..Len(enc_table) :
                                enc_table[j].features = enc_table[i].features
                         THEN <<>> ELSE <<enc_table[i]>>) \o Pick(i + 1)
    IN  Pick(1)

preprocessing_keepLast(ds) ==
    NR2_keepLast(erca_extract_and_export_packing_residues(ds))

preprocessing_encoded(ds) == erca_extract_and_export_packing_residues(ds)

\* preprocessing, lines 17-29: the encoded table of the data set, then NR2 of
\* it.  Both branches of loop_use make the same two calls; ang_df, the second
\* result, is handed on to the graphs only.
preprocessing(ds) ==
    LET enc_table == erca_extract_and_export_packing_residues(ds)
        nonred_df  == NR2(enc_table)
    IN  nonred_df

NoModel == [built |-> FALSE, X_train |-> <<>>]
NoResults == [written |-> FALSE, code |-> <<>>]

RedInit ==
    /\ trainset \in DataSets(TrainCodes)
    /\ testset \in DataSets(TestCodes)
    /\ df_train = <<>>
    /\ df_test = <<>>
    /\ g_model = NoModel
    /\ result_df = NoResults
    /\ g_pc = "start"

\* line 77
G_preprocessing_train ==
    /\ g_pc = "start"
    /\ df_train' = preprocessing(trainset)
    /\ g_pc' = "train"
    /\ UNCHANGED <<trainset, testset, df_test, g_model, result_df>>
    /\ UNCHANGED otherThanRed

\* line 79
G_preprocessing_test ==
    /\ g_pc = "train"
    /\ df_test' = preprocessing(testset)
    /\ g_pc' = "test"
    /\ UNCHANGED <<trainset, testset, df_train, g_model, result_df>>
    /\ UNCHANGED otherThanRed

G_build_model_early ==
    /\ g_pc = "train"
    /\ g_model' = [built |-> TRUE, X_train |-> df_train]
    /\ g_pc' = "fitted"
    /\ UNCHANGED <<trainset, testset, df_train, df_test, result_df>>
    /\ UNCHANGED otherThanRed

\* line 82, runGBReg lines 37-40: the sets are made from df_train and df_test
\* and the model is fitted on the training rows; neither table is changed.
G_build_model ==
    /\ g_pc = "test"
    /\ g_model' = [built |-> TRUE, X_train |-> df_train]
    /\ g_pc' = "fitted"
    /\ UNCHANGED <<trainset, testset, df_train, df_test, result_df>>
    /\ UNCHANGED otherThanRed

\* runGBReg lines 42-45: run_model predicts for the rows of the test table and
\* the results table, one row per test entity, is written and returned.
G_run_model ==
    /\ g_pc = "fitted"
    /\ result_df' = [written |-> TRUE,
                     code |-> [i \in DOMAIN df_test |-> df_test[i].code]]
    /\ g_pc' = "results"
    /\ UNCHANGED <<trainset, testset, df_train, df_test, g_model>>
    /\ UNCHANGED otherThanRed

\* line 85
G_postprocessing ==
    /\ g_pc = "results"
    /\ g_pc' = "done"
    /\ UNCHANGED <<trainset, testset, df_train, df_test, g_model, result_df>>
    /\ UNCHANGED otherThanRed

RedNext ==
    \/ G_preprocessing_train \/ G_preprocessing_test
    \/ G_build_model \/ G_run_model \/ G_postprocessing
InitReduce ==
    EncIdle /\ BatchIdle /\ SingleIdle /\ ExtIdle /\ ParseIdle /\ RedInit /\ PredIdle
    /\ RerunIdle /\ DirIdle
SpecReduce == InitReduce /\ [][RedNext]_vars

(***************************************************************************)
(* Prediction with a stored model: abYpack_singfile.predict_angle,         *)
(* runGBRegmodel.run_models and temp.generate_GBReg_model_everything.  A    *)
(* table is kept as the list of its column names; the stored model is the  *)
(* list of the feature columns it was fitted on.                           *)
(***************************************************************************)
MaxColumns == 6

\* The columns the stored model was fitted on.
TrainedSchema == FeatureColumns(<<"L38">>)
ColumnNames == Range(TrainedSchema) \cup {"code", "angle"}
\* Tables of up to MaxColumns columns with pairwise different names.
ColumnLists ==
    UNION {{c \in [1..n -> ColumnNames] : \A i, j \in 1..n : i # j => c[i] # c[j]} :
              n \in 0..MaxColumns}

\* list(OrderedSet(columns) - names): the columns left, in their order.
Without(columns, names) == SelectSeq(columns, LAMBDA c : c \notin names)

\* predict_angle, lines 136-137
ab_predictors(columns) == Return(Without(columns, {"code"}))

\* run_models, line 118
rg_predictors(columns) == Return(columns)

make_sets_from_df_keepAngle(columns, set_indexer) ==
    IF ~({"code", "angle"} \subseteq Range(columns)) THEN Raise("KeyError")
    ELSE IF ~set_indexer THEN Raise("TypeError")
    ELSE Return(Without(columns, {"code"}))

\* sklearn_methods.make_sets_from_df: df[['code', 'angle']] raises KeyError
\* when one of the two columns is missing; df[target_column] indexes with a
\* set, which pandas from 2.0 on refuses with TypeError.
make_sets_from_df(columns, set_indexer) ==
    IF ~({"code", "angle"} \subseteq Range(columns)) THEN Raise("KeyError")
    ELSE IF ~set_indexer THEN Raise("TypeError")
    ELSE Return(Without(columns, {"angle", "code"}))

\* predict of the unpickled regressor on df[predictors].values: the array
\* carries no column names; a string column or a column count other than the
\* fitted one raises ValueError, any other array is predicted on.
predict(predictors) ==
    IF Contains(predictors, "code") THEN Raise("ValueError")
    ELSE IF Len(predictors) # Len(TrainedSchema) THEN Raise("ValueError")
    ELSE Return("y_pred")

PredInit ==
    /\ m_function \in {"predict_angle", "run_models", "generate_GBReg_model_everything"}
    /\ m_columns \in ColumnLists
    /\ X_test = <<>>
    /\ predict_called = FALSE
    /\ m_pc = "start"

SetPredictors(r) ==
    /\ IF r.exc # "" THEN m_pc' = r.exc /\ UNCHANGED X_test
       ELSE m_pc' = "X_test" /\ X_test' = r.value
    /\ UNCHANGED <<m_function, m_columns, predict_called>>
    /\ UNCHANGED otherThanPred

\* abYpack_singfile.py lines 136-138
AB_predictors ==
    /\ m_function = "predict_angle" /\ m_pc = "start"
    /\ SetPredictors(ab_predictors(m_columns))

\* runGBRegmodel.py lines 118-120
RG_predictors ==
    /\ m_function = "run_models" /\ m_pc = "start"
    /\ SetPredictors(rg_predictors(m_columns))

\* temp.py line 25
T_make_sets_from_df ==
    /\ m_function = "generate_GBReg_model_everything" /\ m_pc = "start"
    /\ \E set_indexer \in BOOLEAN :
           SetPredictors(make_sets_from_df(m_columns, set_indexer))

\* pickle.load: abYpack_singfile.py 139-141, runGBRegmodel.py 123-124,
\* temp.py 26-28
M_load ==
    /\ m_pc = "X_test"
    /\ m_pc' = "loaded"
    /\ UNCHANGED <<m_function, m_columns, X_test, predict_called>>
    /\ UNCHANGED otherThanPred

\* pickle_model.predict(X_test): abYpack_singfile.py 142, runGBRegmodel.py 125,
\* temp.py 29
M_predict ==
    /\ m_pc = "loaded"
    /\ predict_called' = TRUE
    /\ m_pc' = IF predict(X_test).exc # "" THEN predict(X_test).exc ELSE "done"
    /\ UNCHANGED <<m_function, m_columns, X_test>>
    /\ UNCHANGED otherThanPred

PredNext == AB_predictors \/ RG_predictors \/ T_make_sets_from_df \/ M_load \/ M_predict
InitPredict ==
    EncIdle /\ BatchIdle /\ SingleIdle /\ ExtIdle /\ ParseIdle /\ RedIdle /\ PredInit
    /\ RerunIdle /\ DirIdle
SpecPredict == InitPredict /\ [][PredNext]_vars

(***************************************************************************)
(* Directory scans: read_pdbfiles_as_lines of find_VHVLres.py and of       *)
(* findVHVLResidues.py, buid_table_of_angles of compile_angles.py.  A file  *)
(* of the directory is its name without the extension, its extension, its  *)
(* lines (record name and rest) and what the angle tool does with it.      *)
(***************************************************************************)
MaxFiles == 2

Stems == {"X1", "X2"}
Extensions == {"pdb", "ent", "csv"}
Texts == {<<>>, <<<<"ATOM", "1">>>>, <<<<"HETATM", "9">>, <<"ATOM", "2">>>>}
ToolRuns == {"ok", "CalledProcessError"}
ToolAngle == "-45.6"

DirFiles(texts, tools) ==
    [stem : Stems, ext : Extensions, text : texts, tool : tools]
\* Directory listings: up to MaxFiles files, no file name twice.
Listings(files) ==
    UNION {{l \in [1..n -> files] :
               \A i, j \in 1..n :
                   i # j => <<l[i].stem, l[i].ext>> # <<l[j].stem, l[j].ext>>} :
              n \in 0..MaxFiles}

\* file.endswith(".pdb") or file.endswith(".ent")
IsStructureFile(file) == file.ext \in {"pdb", "ent"}
\* The list `files` (`pdb_files` in compile_angles.py) made from the listing.
StructureFiles(listing) == SelectSeq(listing, IsStructureFile)

\* str(line).strip().startswith('ATOM')
IsAtomLine(line) == line[1] = "ATOM"
AtomLinesOf(text) == SelectSeq(text, IsAtomLine)

DirInit ==
    /\ d_script \in {"find_VHVLres", "findVHVLResidues", "compile_angles"}
    /\ d_listing \in IF d_script = "compile_angles"
                     THEN Listings(DirFiles({<<>>}, ToolRuns))
                     ELSE Listings(DirFiles(Texts, {"ok"}))
    /\ d_i = 0
    /\ d_open = {}
    /\ pdb_dict = <<>>
    /\ file_data = <<>>
    /\ df_ang = EmptyFrame
    /\ d_pc = "next"

\* find_VHVLres.py line 48: with open(structure_file, "r") as text_file
R_open ==
    /\ d_script = "find_VHVLres" /\ d_pc = "next"
    /\ d_i < Len(StructureFiles(d_listing))
    /\ d_open' = d_open \cup {d_i + 1}
    /\ d_pc' = "opened"
    /\ UNCHANGED <<d_script, d_listing, d_i, pdb_dict, file_data, df_ang>>
    /\ UNCHANGED otherThanDir

\* lines 51-60: the key is the file name without directory and extension, the
\* value the lines of this file that start with ATOM.
R_read ==
    /\ d_script = "find_VHVLres" /\ d_pc = "opened"
    /\ LET file == StructureFiles(d_listing)[d_i + 1]
       IN  pdb_dict' = DictSet(pdb_dict, file.stem, AtomLinesOf(file.text))
    /\ d_pc' = "read"
    /\ UNCHANGED <<d_script, d_listing, d_i, d_open, file_data, df_ang>>
    /\ UNCHANGED otherThanDir

\* the end of the with block closes the file
R_close ==
    /\ d_script = "find_VHVLres" /\ d_pc = "read"
    /\ d_open' = d_open \ {d_i + 1}
    /\ d_i' = d_i + 1
    /\ d_pc' = "next"
    /\ UNCHANGED <<d_script, d_listing, pdb_dict, file_data, df_ang>>
    /\ UNCHANGED otherThanDir

\* line 62
R_return ==
    /\ d_script = "find_VHVLres" /\ d_pc = "next"
    /\ d_i = Len(StructureFiles(d_listing))
    /\ d_pc' = "returned"
    /\ UNCHANGED <<d_script, d_listing, d_i, d_open, pdb_dict, file_data, df_ang>>
    /\ UNCHANGED otherThanDir

\* findVHVLResidues.py line 116: text_file = open(structure_file, "r")
FV_open ==
    /\ d_script = "findVHVLResidues" /\ d_pc = "next"
    /\ d_i < Len(StructureFiles(d_listing))
    /\ d_open' = d_open \cup {d_i + 1}
    /\ d_pc' = "opened"
    /\ UNCHANGED <<d_script, d_listing, d_i, pdb_dict, file_data, df_ang>>
    /\ UNCHANGED otherThanDir

\* line 119: pdb_direct is a local name of get_pdbdirectory (lines 43-46), not
\* a name of this function or of the module, so the lookup raises NameError;
\* the function has no close() and the file stays open.
FV_replace ==
    /\ d_script = "findVHVLResidues" /\ d_pc = "opened"
    /\ d_pc' = "NameError"
    /\ UNCHANGED <<d_script, d_listing, d_i, d_open, pdb_dict, file_data, df_ang>>
    /\ UNCHANGED otherThanDir

\* With no file in the list the loop body, which holds the return statement
\* (line 132), is never entered and the function returns None.
FV_return_None ==
    /\ d_script = "findVHVLResidues" /\ d_pc = "next"
    /\ StructureFiles(d_listing) = <<>>
    /\ d_pc' = "returned None"
    /\ UNCHANGED <<d_script, d_listing, d_i, d_open, pdb_dict, file_data, df_ang>>
    /\ UNCHANGED otherThanDir

CA_run_tool_abort ==
    /\ d_script = "compile_angles" /\ d_pc = "next"
    /\ d_i < Len(StructureFiles(d_listing))
    /\ LET file == StructureFiles(d_listing)[d_i + 1]
       IN  IF file.tool = "CalledProcessError"
           THEN d_pc' = "CalledProcessError" /\ UNCHANGED <<file_data, d_i>>
           ELSE /\ file_data' = Append(file_data, <<file.stem, ToolAngle>>)
                /\ d_i' = d_i + 1
                /\ d_pc' = "next"
    /\ UNCHANGED <<d_script, d_listing, d_open, pdb_dict, df_ang>>
    /\ UNCHANGED otherThanDir

\* compile_angles.py lines 55-70, one pass of the loop: the code is the file
\* name without its last four characters (line 49); a tool run that raises
\* CalledProcessError is passed over, any other appends [pdb_code, angle].
CA_run_tool ==
    /\ d_script = "compile_angles" /\ d_pc = "next"
    /\ d_i < Len(StructureFiles(d_listing))
    /\ LET file == StructureFiles(d_listing)[d_i + 1]
       IN  file_data' = IF file.tool = "CalledProcessError" THEN file_data
                        ELSE Append(file_data, <<file.stem, ToolAngle>>)
    /\ d_i' = d_i + 1
    /\ UNCHANGED <<d_script, d_listing, d_open, pdb_dict, df_ang, d_pc>>
    /\ UNCHANGED otherThanDir

\* lines 72-79: the table of the rows; the angles are numbers, so the filter
\* on the text 'Packing angle' either raises inside the try (a numeric column
\* has no .str) or, for a table without rows, selects nothing to remove.
CA_return ==
    /\ d_script = "compile_angles" /\ d_pc = "next"
    /\ d_i = Len(StructureFiles(d_listing))
    /\ df_ang' = [columns |-> <<"code", "angle">>, data |-> file_data]
    /\ d_pc' = "returned"
    /\ UNCHANGED <<d_script, d_listing, d_i, d_open, pdb_dict, file_data>>
    /\ UNCHANGED otherThanDir

DirNext ==
    \/ R_open \/ R_read \/ R_close \/ R_return
    \/ FV_open \/ FV_replace \/ FV_return_None
    \/ CA_run_tool \/ CA_return
InitDir ==
    EncIdle /\ BatchIdle /\ SingleIdle /\ ExtIdle /\ ParseIdle /\ RedIdle /\ PredIdle
    /\ RerunIdle /\ DirInit
SpecDir == InitDir /\ [][DirNext]_vars

(***************************************************************************)
(* Properties.                                                             *)
(***************************************************************************)
Known == AminoAcids \cup {"X"}
RowCode(row) == row[1]
\* The four cells of the i-th relevant position in a row (code, features...).
PositionCells(row, i) == SubSeq(row, 4 * (i - 1) + 2, 4 * i + 1)
FrameCodes(frame) == {RowCode(frame.data[k]) : k \in DOMAIN frame.data}
RecordsAt(c, p) == {j \in DOMAIN res_df : res_df[j].code = c /\ res_df[j].pos = p}
\* The four fields encode_4d.py writes for one residue.
WrittenFields(res) == [j \in 1..4 |-> Str(e4_encode_res(res).value[j])]

\* C1: in the table encode_4d.py returns, the four columns of every relevant
\* position p hold the encoding of a residue that one of the entity's
\* records for p carries, whatever the order of the entity's records and
\* whether or not a position has several records.
C1_ColumnsHoldPositionResidue ==
    (script = "encode_4d" /\ pc = "done") =>
        \A k \in DOMAIN training_df.data : \A i \in DOMAIN RelevantPositions :
            LET row  == training_df.data[k]
                recs == RecordsAt(RowCode(row), RelevantPositions[i])
            IN  recs # {} =>
                    \E j \in recs :
                        PositionCells(row, i) = WrittenFields(res_df[j].residue)

\* C2: an entity with no record for some relevant position is absent from
\* the final table of encode_4d.py, also when it has as many records as there
\* are relevant positions.
C2_MissingPositionExcluded ==
    (script = "encode_4d" /\ pc = "done") =>
        \A c \in CodeSet : \A i \in DOMAIN RelevantPositions :
            ((\E j \in DOMAIN res_df : res_df[j].code = c)
                /\ RecordsAt(c, RelevantPositions[i]) = {}) =>
            c \notin FrameCodes(training_df)

ColumnIndex(frame, name) == CHOOSE i \in DOMAIN frame.columns : frame.columns[i] = name
HasColumn(frame, name) == Contains(frame.columns, name)
Observed(p) == \E i \in DOMAIN seq_file : seq_file[i] # <<>> /\ seq_file[i][1] = p
NoZeroForUnobserved(frame, positions) ==
    \A n \in DOMAIN positions : \A j \in 1..4 :
        (~Observed(positions[n]) /\ HasColumn(frame, positions[n] \o Suffixes[j])) =>
            frame.data[1][ColumnIndex(frame, positions[n] \o Suffixes[j])] # 0

\* C3: in the feature row of the single-entity builders, no column of a
\* relevant position that the sequence file lacks holds the number 0.
C3_UnobservedNeverZero ==
    /\ (s_script = "runGBRegmodel" /\ s_pc = "done") =>
           NoZeroForUnobserved(rg_df, rg_good_positions)
    /\ (s_script = "abYpack_singfile" /\ s_pc = "encdf") =>
           NoZeroForUnobserved(encdf, ab_good_positions)

\* C4: the feature columns of encode_df are, for every input, the four
\* columns a..d of every relevant position, in relevant-position order.
C4_ColumnList ==
    (s_script = "abYpack_singfile" /\ s_pc = "encdf") =>
        encdf.columns = FeatureColumns(ab_good_positions)

\* C5: the columns p+a..p+d of a row hold (side-chain atom count,
\* compactness, hydrophobicity, charge) of the residue at p; for positions
\* [L38, H91] and X1 with L38=Q, H91=Y the row is X1,5,4,-0.69,0,8,6,0.02,0.
C5_ColumnOrder ==
    (script = "encode_4d" /\ pc = "done") =>
        /\ \A k \in DOMAIN encoded_df.data :
               LET row  == encoded_df.data[k]
                   recs == RowsOf(res_df, RowCode(row))
               IN  [i \in DOMAIN recs |-> recs[i].pos] = RelevantPositions =>
                       \A i \in DOMAIN recs :
                           PositionCells(row, i) =
                               <<Str(e4_nr_side_chain_atoms_dic[recs[i].residue]),
                                 Str(e4_compactness_dic[recs[i].residue]),
                                 Str(e4_Hydrophathy_index[recs[i].residue]),
                                 Str(e4_charge(recs[i].residue).value)>>
        /\ res_df = <<[code |-> "X1", pos |-> "L38", residue |-> "Q"],
                      [code |-> "X1", pos |-> "H91", residue |-> "Y"]>> =>
               encoded_df.data =
                   <<<<"X1", "5000", "4000", "-690", "0", "8000", "6000", "20", "0">>>>

Features == {"nr_side_chain_atoms", "compactness", "hydrophobicity", "charge"}

\* C6: every encoder returns the fixed values for the 20 letters
\* and 'X', and for any other input every one of the four features, in every
\* file, raises instead of returning a value.
C6_UnknownAlwaysRaises ==
    \A f \in DOMAIN enc_out : \A x \in Features :
        IF enc_in \in Known THEN enc_out[f][x].exc = ""
        ELSE enc_out[f][x].exc # ""

\* C7: charge is -1 for D and E, +1 for K and R, +0.5 for H and 0 for every
\* other letter of the alphabet and for 'X', in every copy of the encoder.
C7_Charge ==
    \A f \in DOMAIN enc_out :
        enc_in \in Known =>
            enc_out[f].charge =
                Return(IF enc_in \in {"D", "E"} THEN -1000
                       ELSE IF enc_in \in {"K", "R"} THEN 1000
                       ELSE IF enc_in = "H" THEN 500
                       ELSE 0)

C7_Witness ==
    /\ enc_in = "H"
    /\ {"encode_4d", "abYpack_singfile"} \subseteq DOMAIN enc_out
    /\ enc_out["encode_4d"].charge.value = 500
    /\ enc_out["abYpack_singfile"].charge.value = 500

AngleCodes == {angle_file[i].code : i \in DOMAIN angle_file}

\* C8: the table combine_by_pdb_code of encode_4d.py returns holds an entity
\* only if the entity has a feature row and a row in the angle table.
C8_JoinStrict ==
    (script = "encode_4d" /\ pc = "done") =>
        FrameCodes(training_df) \subseteq (FrameCodes(encoded_df) \cap AngleCodes)

\* An entity with features and no angle and an entity with a valid angle
\* and no features: neither is returned.
C8_Witness ==
    /\ script = "encode_4d" /\ pc = "done"
    /\ \E c \in FrameCodes(encoded_df) : c \notin AngleCodes
    /\ \E c \in AngleCodes : c \notin FrameCodes(encoded_df)
    /\ FrameCodes(training_df) = {}
    /\ \E i \in DOMAIN angle_file : angle_file[i].angle # "NaN"

\* C9: no row of the table returned by either joiner has a missing field.
C9_NoMissingField ==
    pc = "done" =>
        \A k \in DOMAIN training_df.data : \A j \in DOMAIN training_df.data[k] :
            training_df.data[k][j] \notin {"", "NaN", "None"}

\* C10: after prep_table, position records are unique per (entity id,
\* position label), also when the input records of one position differ in
\* their residue.
C10_UniquePerEntityPosition ==
    x_pc \in {"init_table", "done"} =>
        \A i, j \in DOMAIN init_table :
            (init_table[i].code = init_table[j].code
                /\ init_table[i].pos = init_table[j].pos) => i = j
\* The position label of an output row as a string.
LabelOf(row) == IF f_script = "find_VHVLres" THEN row.pos ELSE Join(row.pos)

\* C11: the extractor's output holds a record only if its position label is
\* a member of the relevant position list; a label that contains a relevant
\* label (L38A for L38) is not output, in either implementation.
C11_ExactPositionsOnly ==
    f_pc = "done" =>
        \A i \in DOMAIN f_out : LabelOf(f_out[i]) \in Range(x_good_positions)
\* The fields of an ATOM line by the record's columns: residue name,
\* position label (chain, residue number, insertion letter).
LineResName(line) == Join(SubSeq(line, 18, 20))
LineLabel(line) ==
    Join(<<line[22]>> \o Strip(SubSeq(line, 23, 26)) \o Strip(<<line[27]>>))
\* A full record whose fields are separated by blanks.
PlainLine(line) == line # ShortLine /\ line[17] = " " /\ line[23] = " "
AllLines(P(_)) == \A c \in DOMAIN f_lines : \A i \in DOMAIN f_lines[c] : P(f_lines[c][i])
HasRecord(c, line) ==
    \E k \in DOMAIN f_table :
        /\ f_table[k].code = c
        /\ LabelOf(f_table[k]) = LineLabel(line)
        /\ f_table[k].residue = fv_one_letter_code_dic[LineResName(line)]

\* C12: a record whose three-letter code is none of the 20 standard codes,
\* XAA or UNK is skipped: prep_table does not abort, and the other records
\* of the entity and of the other entities are extracted.
C12_UnknownResidueSkipped ==
    (f_pc # "start" /\ AllLines(PlainLine)) =>
        /\ f_pc \in {"table", "done"}
        /\ \A c \in DOMAIN f_lines : \A i \in DOMAIN f_lines[c] :
               LineResName(f_lines[c][i]) \in DOMAIN fv_one_letter_code_dic
                   => HasRecord(c, f_lines[c][i])

WellFormedAb(l) == Len(l) >= 2 /\ FirstChar(l[1]) \in {"L", "H"}

\* C13: a malformed line of the sequence file (an empty line, a line with
\* one field) is skipped: seq2df does not abort, and every well-formed line
\* before and after it is processed.
C13_MalformedLineSkipped ==
    /\ s_pc # "IndexError"
    /\ (s_script = "abYpack_singfile" /\ s_pc # "start") =>
           \A i \in DOMAIN seq_file :
               WellFormedAb(seq_file[i]) =>
                   \E k \in DOMAIN data :
                       data[k].pos = seq_file[i][1] /\ data[k].residue = seq_file[i][2]

\* C14: for every retained ATOM line the record produced has the label
\* chain + residue number + insertion letter and the line's residue, in
\* both parsers, also when adjacent fields are not separated by a blank.
C14_LabelFromLine ==
    f_pc \in {"table", "done"} =>
        /\ \A c \in DOMAIN f_lines : \A i \in DOMAIN f_lines[c] :
               (f_lines[c][i] # ShortLine
                   /\ LineResName(f_lines[c][i]) \in DOMAIN fv_one_letter_code_dic)
                   => HasRecord(c, f_lines[c][i])
        /\ \A k \in DOMAIN f_table :
               \E i \in DOMAIN f_lines[f_table[k].code] :
                   LabelOf(f_table[k]) = LineLabel(f_lines[f_table[k].code][i])
\* The positions on the lines of the sequence file.
SeenPositions == {seq_file[i][1] : i \in {k \in DOMAIN seq_file : seq_file[k] # <<>>}}
ObservedCount(pos_list) == Cardinality(Range(pos_list) \cap SeenPositions)
Cell(frame, name) == frame.data[1][ColumnIndex(frame, name)]
LoopColumns == <<"L1_length", "H2_length", "H3_length">>

\* C15: each loop-length feature is the number of positions of the loop's
\* range observed for the entity (L1: L24..L34, H2: H50..H58, H3: H95..H102);
\* a position on several lines counts once, and the three loops are counted
\* alike, in runGBRegmodel.seq2df and in abYpack_singfile.loop_df.
C15_LoopLengths ==
    /\ (s_script = "runGBRegmodel" /\ s_pc = "done") =>
           \A l \in {<<1, rg_cdrL1_pos>>, <<2, rg_cdrH2_pos>>, <<3, rg_cdrH3_pos>>} :
               ObservedCount(l[2]) > 0 =>
                   /\ HasColumn(rg_df, LoopColumns[l[1]])
                   /\ Cell(rg_df, LoopColumns[l[1]]) = ObservedCount(l[2])
    /\ (s_script = "abYpack_singfile" /\ s_pc \in {"loopdf", "encdf", "fulldf"}) =>
           \A l \in {<<1, ab_cdrL1_pos>>, <<2, ab_cdrH2_pos>>, <<3, ab_cdrH3_pos>>} :
               ObservedCount(l[2]) > 0 =>
                   /\ Len(loopdf.data) = 1
                   /\ Cell(loopdf, LoopColumns[l[1]]) = ObservedCount(l[2])

\* C16: the single-entity builders return one row whose columns are the four
\* columns of every relevant position and L1_length, H2_length, H3_length,
\* for every sequence file.
C16_StableSchema ==
    /\ (s_script = "runGBRegmodel" /\ s_pc = "done") =>
           /\ Len(rg_df.data) = 1
           /\ Range(rg_df.columns) =
                  Range(FeatureColumns(rg_good_positions)) \cup Range(LoopColumns)
    /\ (s_script = "abYpack_singfile" /\ s_pc = "fulldf") =>
           /\ Len(fulldf.data) = 1
           /\ Range(fulldf.columns) \ {"code"} =
                  Range(FeatureColumns(ab_good_positions)) \cup Range(LoopColumns)

IndexOf(ds, c) == CHOOSE i \in DOMAIN ds : ds[i].code = c
\* The residues of the entity of a data set that has the given code.
ResidueOf(ds, c) == ds[IndexOf(ds, c)].residue
\* The entities that no earlier entity of the data set matches at every
\* relevant position.
FirstSeen(ds) ==
    {i \in DOMAIN ds : \A j \in 1..(i - 1) : ds[j].residue # ds[i].residue}
OneFirstSeenPerClass(ds, out) ==
    /\ Len(out) = Cardinality(FirstSeen(ds))
    /\ {out[a].code : a \in DOMAIN out} = {ds[i].code : i \in FirstSeen(ds)}
    /\ \A a, b \in DOMAIN out :
           a < b => IndexOf(ds, out[a].code) < IndexOf(ds, out[b].code)
    /\ \A a \in DOMAIN out :
           out[a] = erca_extract_and_export_packing_residues(ds)[IndexOf(ds, out[a].code)]
    /\ (FirstSeen(ds) = DOMAIN ds) =>
           out = erca_extract_and_export_packing_residues(ds)

NoTwoAlike(rows) ==
    \A a, b \in DOMAIN rows : a # b => rows[a].features # rows[b].features

C19_NoLeakage ==
    g_pc = "fitted" =>
        \A a \in DOMAIN df_test : \A b \in DOMAIN df_train :
            ResidueOf(testset, df_test[a].code) # ResidueOf(trainset, df_train[b].code)

\* C20: predict of the stored model has been called only with the feature
\* columns, in names and order, that the model was fitted on.
C20_SchemaCheckedBeforePredict ==
    predict_called => X_test = TrainedSchema

\* The four feature columns of a position hold the encoded values of the
\* residue named on the given line of the sequence file.
HoldsResidueOfLine(frame, line) ==
    \A k \in 1..4 :
        /\ HasColumn(frame, line[1] \o Suffixes[k])
        /\ Cell(frame, line[1] \o Suffixes[k]) =
               rg_make_param(rg_one_letter_code(line[2]).value, Suffixes[k]).value

\* C27: when runGBRegmodel.seq2df has read the whole file, the four columns of
\* every relevant position named on some line hold the encoded values of a
\* residue the file gives for that position, whatever lines follow it.
C27_EarlierValuesKept ==
    (s_script = "runGBRegmodel" /\ s_pc = "done") =>
        \A i \in DOMAIN seq_file :
            Contains(rg_good_positions, seq_file[i][1]) =>
                \E j \in DOMAIN seq_file :
                    /\ seq_file[j][1] = seq_file[i][1]
                    /\ HoldsResidueOfLine(rg_df, seq_file[j])

FeatureNames == {"nr_side_chain_atoms", "compactness", "hydrophobicity", "charge"}

\* C28: for every symbol, the four copies of each feature function return the
\* same value or all raise.
C28_EncodersEquivalent ==
    \A f, g \in DOMAIN enc_out : \A n \in FeatureNames :
        /\ enc_out[f][n].value = enc_out[g][n].value
        /\ (enc_out[f][n].exc = "") = (enc_out[g][n].exc = "")

ValidResfile ==
    /\ seq_file # <<>>
    /\ \A i \in DOMAIN seq_file : WellFormedAb(seq_file[i]) /\ seq_file[i][2] \in Known
    /\ \A i, j \in DOMAIN seq_file : i # j => seq_file[i][1] # seq_file[j][1]

\* C30: a run of abYpack_singfile on a valid residue file is at one of its
\* stages in order, or has printed the angle; no step has raised.
C30_ReachesPredict ==
    (s_script = "abYpack_singfile" /\ ValidResfile) =>
        s_pc \in {"start", "data", "loopdf", "encdf", "fulldf", "printed"}

DirEnded == d_pc \in {"returned", "returned None", "NameError"}

\* C21: while read_pdbfiles_as_lines reads the files, at most one file is
\* open, and none is open once the function has ended.
C21_OneHandleAtATime ==
    d_script \in {"find_VHVLres", "findVHVLResidues"} =>
        /\ Cardinality(d_open) <= 1
        /\ DirEnded => d_open = {}

\* C23: the angle table compile_angles returns has at most one row for a code.
C23_CodeUnique ==
    (d_script = "compile_angles" /\ d_pc = "returned") =>
        \A i, j \in DOMAIN df_ang.data :
            i # j => df_ang.data[i][1] # df_ang.data[j][1]

C26_EntryPerFile ==
    (d_script \in {"find_VHVLres", "findVHVLResidues"} /\ DirEnded) =>
        /\ d_pc = "returned"
        /\ \A i \in DOMAIN d_listing :
               IsStructureFile(d_listing[i]) =>
                   /\ Contains(DictKeys(pdb_dict), d_listing[i].stem)
                   /\ DictGet(pdb_dict, d_listing[i].stem) = AtomLinesOf(d_listing[i].text)
====
